---- MODULE Spec2Model ----
(***************************************************************************)
(* Playlist reorder extension: the page script (src/content.js, the        *)
(* definitions of lines 326-627), its plan / execute / verify cycle, the   *)
(* shared status record in chrome.storage.local and the playlist page it   *)
(* drives.                                                                 *)
(*                                                                         *)
(* JavaScript runs one task at a time: every action below is the code      *)
(* between two awaits (or one listener / timer callback), taken as a       *)
(* whole.  chrome.storage.local serves the calls of one script in the      *)
(* order they were issued, so a set() is modelled as taking effect when it *)
(* is issued and a get() as a snapshot taken when it is issued, delivered  *)
(* to its callback later.                                                  *)
(***************************************************************************)
EXTENDS Naturals, Integers, Sequences, FiniteSets, TLC

(***************************************************************************)
(* Bounds of the model.                                                    *)
(***************************************************************************)
\* Spec: videos on the page, requests received in one behaviour
MaxVideos == 3
MaxMsgs == 3
\* SpecExec: videos on the page, requests received after the preview
ExecVideos == 3
ExecMsgs == 2
\* SpecRace: videos on the page, requests received after the preview
RaceVideos == 1
RaceMsgs == 3
\* SpecPlan: videos on the page
PlanVideos == 6
\* SpecVerify: videos on the page, entries of the plan
VerifyVideos == 3
VerifyLen == 3
\* SpecScroll: videos of the playlist
ScrollVideos == 11

(***************************************************************************)
(* Program constants.                                                      *)
(***************************************************************************)
maxConsecutiveStops == 3
maxRetries == 15
\* the 30000 ms failsafe counted in 1000 ms interval periods
FailsafeTicks == 30

\* the value of unary plus on text that is no number (content.js:396)
NaN == -1

(***************************************************************************)
(* The page.  A ytd-playlist-video-renderer element is a video id; what    *)
(* its #video-title and time-status children hold is given by VideoEl.     *)
(* Text is a sequence of tokens, " " being white space; a time text is the *)
(* sequence of its ':'-separated parts, a part being a number [n |-> k] or *)
(* a word [w |-> s].                                                       *)
(***************************************************************************)
VideoEl(v) ==
  LET k == ((v - 1) % 6) + 1 IN
  CASE k = 1 -> [hasTitle |-> TRUE,  title |-> <<" ", "B", " ">>,
                 hasTime  |-> TRUE,  time  |-> <<[n |-> 0], [n |-> 30]>>]
    [] k = 2 -> [hasTitle |-> TRUE,  title |-> <<"A">>,
                 hasTime  |-> TRUE,  time  |-> <<[n |-> 5], [n |-> 0]>>]
    [] k = 3 -> [hasTitle |-> FALSE, title |-> <<>>,
                 hasTime  |-> TRUE,  time  |-> <<[n |-> 1], [n |-> 0], [n |-> 0]>>]
    [] k = 4 -> [hasTitle |-> TRUE,  title |-> <<"A">>,
                 hasTime  |-> TRUE,  time  |-> <<[n |-> 2], [n |-> 0]>>]
    [] k = 5 -> [hasTitle |-> TRUE,  title |-> <<"C">>,
                 hasTime  |-> TRUE,  time  |-> <<[w |-> "LIVE"]>>]
    [] OTHER -> [hasTitle |-> TRUE,  title |-> <<"D">>,
                 hasTime  |-> FALSE, time  |-> <<>>]

\* String.prototype.trim
RECURSIVE TrimLeft(_)
TrimLeft(t) == IF t # <<>> /\ Head(t) = " " THEN TrimLeft(Tail(t)) ELSE t

RECURSIVE TrimRight(_)
TrimRight(t) ==
  IF t # <<>> /\ t[Len(t)] = " " THEN TrimRight(SubSeq(t, 1, Len(t) - 1)) ELSE t

Trim(t) == TrimRight(TrimLeft(t))

Untitled == <<"Untitled">>

\* titleEl ? titleEl.textContent.trim() : 'Untitled'
TitleOrUntitled(v) ==
  IF VideoEl(v).hasTitle THEN Trim(VideoEl(v).title) ELSE Untitled

\* +time
ToNumber(part) == IF "n" \in DOMAIN part THEN part.n ELSE NaN

\* (60 * acc) + +time, with NaN absorbing
ReduceStep(acc, part) ==
  IF acc = NaN \/ ToNumber(part) = NaN THEN NaN ELSE (60 * acc) + ToNumber(part)

RECURSIVE Reduce(_, _)
Reduce(acc, parts) ==
  IF parts = <<>> THEN acc ELSE Reduce(ReduceStep(acc, Head(parts)), Tail(parts))

\* durationText = timeEl ? timeEl.innerText.trim() : '0:00'
DurationText(v) ==
  IF VideoEl(v).hasTime THEN VideoEl(v).time ELSE <<[n |-> 0], [n |-> 0]>>

durationSeconds(v) == Reduce(0, DurationText(v))

\* one entry of videoData
VideoData(v) == [duration |-> durationSeconds(v), title |-> TitleOrUntitled(v)]

RECURSIVE MapVideoData(_)
MapVideoData(els) ==
  IF els = <<>> THEN <<>> ELSE <<VideoData(Head(els))>> \o MapVideoData(Tail(els))

\* a <= b on numbers, false when either is NaN
LessEq(a, b) == a # NaN /\ b # NaN /\ a <= b

\* KeepVideo with an exclusive bound
KeepShorter(video, maxLength) ==
  video.duration # NaN /\ maxLength # NaN /\ video.duration < maxLength

\* video => video.duration <= maxLength
KeepVideo(video, maxLength) == LessEq(video.duration, maxLength)

RECURSIVE Filter(_, _)
Filter(videoData, maxLength) ==
  IF videoData = <<>> THEN <<>>
  ELSE (IF KeepVideo(Head(videoData), maxLength) THEN <<Head(videoData)>> ELSE <<>>)
       \o Filter(Tail(videoData), maxLength)

\* if (maxLength > 0) videoData = videoData.filter(...)
FilterByMaxLength(videoData, maxLength) ==
  IF maxLength # NaN /\ maxLength > 0 THEN Filter(videoData, maxLength) ELSE videoData

\* the comparator given to sort; a NaN result counts as 0
Compare(a, b, order) ==
  IF a.duration = NaN \/ b.duration = NaN THEN 0
  ELSE IF order = "asc" THEN a.duration - b.duration ELSE b.duration - a.duration

(***************************************************************************)
(* Array.prototype.sort as the engine of the extension's browser runs it   *)
(* on a short array: the leading run is counted (and reversed when         *)
(* strictly descending), the rest is inserted by binary insertion.         *)
(***************************************************************************)
RECURSIVE RunLength(_, _, _, _)
RunLength(a, idx, descending, order) ==
  IF idx > Len(a) THEN idx - 1
  ELSE LET c == Compare(a[idx], a[idx - 1], order) IN
       IF (descending /\ c >= 0) \/ (~descending /\ c < 0) THEN idx - 1
       ELSE RunLength(a, idx + 1, descending, order)

Reverse(s) == [k \in 1..Len(s) |-> s[Len(s) + 1 - k]]

RECURSIVE InsertPoint(_, _, _, _, _)
InsertPoint(a, pivot, left, right, order) ==
  IF left >= right THEN left
  ELSE LET mid == left + ((right - left) \div 2) IN
       IF Compare(pivot, a[mid], order) < 0
       THEN InsertPoint(a, pivot, left, mid, order)
       ELSE InsertPoint(a, pivot, mid + 1, right, order)

RECURSIVE BinaryInsertionSort(_, _, _)
BinaryInsertionSort(a, start, order) ==
  IF start > Len(a) THEN a
  ELSE LET pivot == a[start]
           left  == InsertPoint(a, pivot, 1, start, order)
           b     == SubSeq(a, 1, left - 1) \o <<pivot>> \o SubSeq(a, left, start - 1)
                    \o SubSeq(a, start + 1, Len(a))
       IN BinaryInsertionSort(b, start + 1, order)

SortByDuration(videoData, order) ==
  IF Len(videoData) < 2 THEN videoData
  ELSE LET descending == Compare(videoData[2], videoData[1], order) < 0
           run        == RunLength(videoData, 3, descending, order)
           a          == IF descending
                         THEN Reverse(SubSeq(videoData, 1, run))
                              \o SubSeq(videoData, run + 1, Len(videoData))
                         ELSE videoData
       IN BinaryInsertionSort(a, run + 1, order)

(***************************************************************************)
(* State.                                                                  *)
(***************************************************************************)
VARIABLES
  isReordering,   \* content.js:326
  isCancelled,    \* content.js:327
  status,         \* chrome.storage.local 'reorder_status'
  dom,            \* the ytd-playlist-video-renderer elements, in document order
  unloaded,       \* videos of the playlist the page has not rendered yet
  loading,        \* the page is fetching the next video after a scroll to the bottom
  container,      \* "ytd-playlist-video-list-renderer #contents" exists
  pageMoves,      \* 'Move to top' clicks the page has not applied yet
  runs,           \* the active calls of generateReorderPlan / executeReorder / verifyOrder
  execGets,       \* storage.get calls of the executeReorder listener, not yet called back
  timers,         \* pending 5000 ms timeouts of executeReorder's finally
  timerGets,      \* storage.get calls of such timeouts that read 'complete'
  quota,          \* requests that may still arrive (the bound of a behaviour)
  response,       \* the last answer given with sendResponse
  history,        \* whether a cancelReorder was accepted during an executeReorder run,
                  \* and whether a request arrived after it (read by the properties only)
  reorderPlan,    \* content.js:3, the module-level plan of the first set of definitions
  loaded,         \* the loads of the page script after the first, and what the last one found
  popup,          \* the popup page: where its script is, its elements, its pending events
  relay           \* the calls of the relay's onMessage listener

\* what the page script of content.js:326-627 never touches
others == <<reorderPlan, loaded, popup, relay>>

\* what no call of the page script touches
outside == <<loaded, popup, relay>>

vars == <<isReordering, isCancelled, status, dom, unloaded, loading, container,
          pageMoves, runs, execGets, timers, timerGets, quota, response, history,
          reorderPlan, loaded, popup, relay>>

pageVars == <<dom, unloaded, loading, container, pageMoves>>

RunIds == DOMAIN runs

(***************************************************************************)
(* Status records and messages.                                            *)
(***************************************************************************)
Message(text, pos, t1, t2) ==
  [failed |-> FALSE, text |-> text, pos |-> pos, t1 |-> t1, t2 |-> t2]

NoMessage == Message("", 0, <<>>, <<>>)

\* `Execution failed: ${error.message}`
ExecutionFailed(m) == [m EXCEPT !.failed = TRUE]

\* what updateStatus(state, processed = 0, total = 0, message = '', plan = []) stores.
\* Its timestamp: Date.now() makes every stored record a new value, of which
\* chrome.storage reports a change; fresh: that change is not yet reported
StatusRecord(state, processed, total, message, plan) ==
  [state |-> state, processed |-> processed, total |-> total, message |-> message,
   plan |-> plan, full |-> TRUE, fresh |-> TRUE]

\* { state: 'idle' } as the module initialisation stores it: no other field
BareIdle ==
  [state |-> "idle", processed |-> 0, total |-> 0, message |-> NoMessage,
   plan |-> <<>>, full |-> FALSE, fresh |-> FALSE]

NoStatus ==
  [state |-> "none", processed |-> 0, total |-> 0, message |-> NoMessage,
   plan |-> <<>>, full |-> FALSE, fresh |-> FALSE]

(***************************************************************************)
(* The popup's elements (popup.js:1-13), as popup.test.js:16-37 builds     *)
(* them, and the popup before it is opened.                                *)
(***************************************************************************)
\* the text of #status-text: a fixed text, the numbers and the message put into it
UiText(text, a, b, msg) == [text |-> text, a |-> a, b |-> b, msg |-> msg]

InitialUI ==
  [statusText |-> UiText("", 0, 0, NoMessage),
   startDisabled |-> FALSE, cancelShown |-> FALSE, cancelDisabled |-> FALSE,
   orderDisabled |-> FALSE, maxLengthDisabled |-> FALSE,
   progressShown |-> FALSE, progressWidth |-> -1,
   settingsShown |-> TRUE, previewShown |-> FALSE, previewList |-> <<>>]

\* pc: "closed", "loaded" (script evaluated, DOMContentLoaded not yet fired), "get"
\* (storage.get issued), "set" (storage.set issued), "open" (both callbacks done);
\* got: what the storage.get of DOMContentLoaded read; events: the storage.onChanged
\* events not yet handled; opens: how often the popup was opened; drawn, shown, sets:
\* whether updateUI was called, its last argument, and the number of storage.set
\* calls of the popup (read by the properties only); calls: the sendMessage calls of
\* the clicks, oldest first, each with its button, the opening of the popup it was
\* made in and its answer ("pending" until the request has been passed on), up to the
\* call of its callback; clicks, confirms: the number of clicks so far, and of those
\* on Confirm
ClosedPopup ==
  [pc |-> "closed", got |-> NoStatus, ui |-> InitialUI, events |-> <<>>, opens |-> 0,
   drawn |-> FALSE, shown |-> NoStatus, sets |-> 0, calls |-> <<>>, clicks |-> 0, confirms |-> 0]

\* the parts of the state outside the page script, at rest
OthersIdle ==
  /\ reorderPlan = <<>>
  /\ loaded = [count |-> 0, before |-> "none"]
  /\ popup = ClosedPopup
  /\ relay = <<>>

(***************************************************************************)
(* Runs.  pc is the await the call is suspended at.                        *)
(***************************************************************************)
\* no plan item
NoVideo == [duration |-> 0, title |-> <<>>]

IdleRun ==
  [kind |-> "none", pc |-> "none", plan |-> <<>>, i |-> 0, target |-> 0, polls |-> 0,
   videoInfo |-> NoVideo,
   lastHeight |-> 0, consecutiveStops |-> 0, ticks |-> 0,
   order |-> "asc", maxLength |-> 0, processed |-> 0,
   \* history, read by the properties only
   attempts |-> <<>>, sawCancel |-> FALSE, effective |-> TRUE, disturbed |-> FALSE,
   last |-> NoStatus, states |-> {}, cancelled |-> FALSE, afterCancel |-> FALSE,
   result |-> [ok |-> FALSE, msg |-> NoMessage], seen |-> <<>>, unread |-> 0]

\* the run records not yet taken by a call; every initial state has as many records
\* as requests can be received, and a request starts one call at most
FreeIds == {r \in RunIds : runs[r].kind = "none"}

NewId == CHOOSE r \in FreeIds : \A q \in FreeIds : r <= q

\* the status a run writes, remembered in its history
Wrote(rn, st) == [rn EXCEPT !.last = st, !.states = @ \cup {st.state}]

\* the pcs of executeReorder's for loop (content.js:503-533)
LoopPcs ==
  {"x_search", "x_scroll", "x_menu", "x_poll", "x_stable", "x_unstable", "x_next",
   "x_cancelled"}

(***************************************************************************)
(* Reading the page.                                                       *)
(***************************************************************************)
\* document.documentElement.scrollHeight: grows with every rendered video
Height(d) == Len(d) + 1

\* titleEl && titleEl.textContent.trim() === title
TitleMatches(v, title) == VideoEl(v).hasTitle /\ Trim(VideoEl(v).title) = title

\* findVideoElementByTitle: the first match in document order, 0 for undefined
RECURSIVE findVideoElementByTitle(_, _)
findVideoElementByTitle(d, title) ==
  IF d = <<>> THEN 0
  ELSE IF TitleMatches(Head(d), title) THEN Head(d)
  ELSE findVideoElementByTitle(Tail(d), title)

\* the page's 'Move to top': v becomes first, the others keep their order
MoveToTop(d, v) == <<v>> \o SelectSeq(d, LAMBDA x : x # v)

InDom(d, v) == \E k \in 1..Len(d) : d[k] = v

RECURSIVE Titles(_)
Titles(els) ==
  IF els = <<>> THEN <<>> ELSE <<TitleOrUntitled(Head(els))>> \o Titles(Tail(els))

RECURSIVE PlanTitles(_)
PlanTitles(plan) ==
  IF plan = <<>> THEN <<>> ELSE <<Head(plan).title>> \o PlanTitles(Tail(plan))

(***************************************************************************)
(* verifyOrder's comparison (content.js:570-589): the result is TRUE, or   *)
(* the message it returns.                                                 *)
(***************************************************************************)
NotAllFound ==
  Message("Verification failed: Not all videos were found on the page after reordering.",
          0, <<>>, <<>>)

\* FirstMismatch reporting the last position that differs
RECURSIVE LastMismatchFrom(_, _, _)
LastMismatchFrom(currentOrderTitles, planToVerify, j) ==
  IF j < 1 THEN 0
  ELSE IF currentOrderTitles[j] # planToVerify[j].title THEN j
  ELSE LastMismatchFrom(currentOrderTitles, planToVerify, j - 1)

LastMismatch(currentOrderTitles, planToVerify, i) ==
  LastMismatchFrom(currentOrderTitles, planToVerify, Len(planToVerify))

RECURSIVE FirstMismatch(_, _, _)
FirstMismatch(currentOrderTitles, planToVerify, i) ==
  IF i > Len(planToVerify) THEN 0
  ELSE IF currentOrderTitles[i] # planToVerify[i].title THEN i
  ELSE FirstMismatch(currentOrderTitles, planToVerify, i + 1)

\* CompareOrder asking for a live list exactly as long as the plan
CompareOrderExact(videoElements, planToVerify) ==
  IF Len(videoElements) # Len(planToVerify)
  THEN [ok |-> FALSE, msg |-> NotAllFound]
  ELSE LET currentOrderTitles == Titles(videoElements)
           i == FirstMismatch(currentOrderTitles, planToVerify, 1)
       IN IF i = 0 THEN [ok |-> TRUE, msg |-> NoMessage]
          ELSE [ok |-> FALSE,
                msg |-> Message("Mismatch at position", i, planToVerify[i].title,
                                currentOrderTitles[i])]

\* [ok |-> TRUE] for true, else the error message
CompareOrder(videoElements, planToVerify) ==
  IF Len(videoElements) < Len(planToVerify)
  THEN [ok |-> FALSE, msg |-> NotAllFound]
  ELSE LET currentOrderTitles == Titles(SubSeq(videoElements, 1, Len(planToVerify)))
           i == FirstMismatch(currentOrderTitles, planToVerify, 1)
       IN IF i = 0 THEN [ok |-> TRUE, msg |-> NoMessage]
          ELSE [ok |-> FALSE,
                msg |-> Message("Mismatch at position", i, planToVerify[i].title,
                                currentOrderTitles[i])]

(***************************************************************************)
(* generateReorderPlan's computation on the scraped elements               *)
(* (content.js:386-418): the status it publishes.                          *)
(***************************************************************************)
NoVideosFound == Message("No videos found. Are you on a playlist page?", 0, <<>>, <<>>)

NoVideosMatch == Message("No videos match the specified criteria.", 0, <<>>, <<>>)

\* PlanStatus without the check of what the filter has left
PlanStatusUnchecked(videoElements, order, maxLength) ==
  IF Len(videoElements) = 0 THEN StatusRecord("error", 0, 0, NoVideosFound, <<>>)
  ELSE LET plan == SortByDuration(FilterByMaxLength(MapVideoData(videoElements), maxLength),
                                  order)
       IN StatusRecord("preview", 0, Len(plan), NoMessage, plan)

PlanStatus(videoElements, order, maxLength) ==
  IF Len(videoElements) = 0 THEN StatusRecord("error", 0, 0, NoVideosFound, <<>>)
  ELSE LET videoData == FilterByMaxLength(MapVideoData(videoElements), maxLength) IN
       IF Len(videoData) = 0 THEN StatusRecord("error", 0, 0, NoVideosMatch, <<>>)
       ELSE LET plan == SortByDuration(videoData, order) IN
            StatusRecord("preview", 0, Len(plan), NoMessage, plan)
(***************************************************************************)
(* executeReorder (content.js:484-559), from one await to the next.        *)
(***************************************************************************)
\* Reordering that stores the plan again with every progress record
ReorderingWithPlan(rn, processed, message) ==
  StatusRecord("reordering", processed, Len(rn.plan), message, rn.plan)

Reordering(rn, processed, message) ==
  StatusRecord("reordering", processed, Len(rn.plan), message, <<>>)

\* content.js:548-557: the finally block; the call is over
Finally(r, rn) ==
  /\ isReordering' = FALSE
  /\ isCancelled' = FALSE
  /\ timers' = timers + 1
  /\ runs' = [runs EXCEPT ![r] = IdleRun]
  /\ status' = status

\* Catch that stores the plan of the call with the error
CatchWithPlan(r, rn, message) ==
  LET st == StatusRecord("error", 0, 0, ExecutionFailed(message), rn.plan) IN
  /\ status' = st
  /\ runs' = [runs EXCEPT ![r] = [Wrote(rn, st) EXCEPT !.pc = "x_fin"]]
  /\ UNCHANGED <<isReordering, isCancelled, timers>>

\* content.js:546-547: the catch block
Catch(r, rn, message) ==
  LET st == StatusRecord("error", 0, 0, ExecutionFailed(message), <<>>) IN
  /\ status' = st
  /\ runs' = [runs EXCEPT ![r] = [Wrote(rn, st) EXCEPT !.pc = "x_fin"]]
  /\ UNCHANGED <<isReordering, isCancelled, timers>>

\* Click whose failure is not caught inside the loop: it ends the call
ClickAborts(r, rn, v) ==
  \E menuButton \in BOOLEAN :
     LET tried == [rn EXCEPT !.target = v, !.attempts = Append(@, rn.i),
                             !.afterCancel = @ \/ rn.cancelled]
     IN IF menuButton
        THEN /\ runs' = [runs EXCEPT ![r] = [tried EXCEPT !.pc = "x_menu"]]
             /\ UNCHANGED <<status, isReordering, isCancelled, timers>>
        ELSE Catch(r, [tried EXCEPT !.effective = FALSE],
                   Message("Could not find menu button for video.", 0, <<>>, <<>>))

\* content.js:522-532: the click on the menu button, or the inner catch
Click(r, rn, v) ==
  \E menuButton \in BOOLEAN :
     LET tried == [rn EXCEPT !.target = v, !.attempts = Append(@, rn.i),
                             !.afterCancel = @ \/ rn.cancelled]
         st == Reordering(rn, Len(rn.plan) - rn.i + 1, NoMessage)
     IN /\ IF menuButton
           THEN /\ runs' = [runs EXCEPT ![r] = [tried EXCEPT !.pc = "x_menu"]]
                /\ status' = status
           ELSE /\ runs' = [runs EXCEPT ![r] =
                             [Wrote(tried, st) EXCEPT !.pc = "x_next", !.effective = FALSE]]
                /\ status' = st
        /\ UNCHANGED <<isReordering, isCancelled, timers>>

\* content.js:535-540: after the loop, up to verifyOrder's storage.get
AfterLoop(r, rn) ==
  IF isCancelled
  THEN Finally(r, rn)
  ELSE /\ runs' = [runs EXCEPT ![r] =
                   [rn EXCEPT !.pc = "v_get",
                              !.processed = IF status.full THEN status.processed ELSE 0,
                              !.afterCancel = @ \/ rn.cancelled]]
       /\ UNCHANGED <<status, isReordering, isCancelled, timers>>

\* content.js:503-520: the head of one iteration, rn.i being the 1-based index
LoopHead(r, rn) ==
  IF rn.i < 1 THEN AfterLoop(r, rn)
  ELSE IF isCancelled
  THEN LET st == StatusRecord("idle", 0, 0, NoMessage, <<>>) IN
       /\ status' = st
       /\ runs' = [runs EXCEPT ![r] =
                   [Wrote(rn, st) EXCEPT !.pc = "x_cancelled", !.sawCancel = TRUE]]
       /\ UNCHANGED <<isReordering, isCancelled, timers>>
  ELSE LET title == rn.plan[rn.i].title
           v == findVideoElementByTitle(dom, title)
           st == Reordering(rn, Len(rn.plan) - rn.i, Message("Searching for", 0, title, <<>>))
       IN IF v = 0
          THEN /\ status' = st
               /\ runs' = [runs EXCEPT ![r] = [Wrote(rn, st) EXCEPT !.pc = "x_search"]]
               /\ UNCHANGED <<isReordering, isCancelled, timers>>
          ELSE Click(r, rn, v)

\* SearchAgain that passes over an item it cannot find
SearchAgainSkips(r, rn) ==
  LET title == rn.plan[rn.i].title
      v == findVideoElementByTitle(dom, title)
      st == Reordering(rn, Len(rn.plan) - rn.i + 1, NoMessage)
  IN IF v = 0
     THEN /\ status' = st
          /\ runs' = [runs EXCEPT ![r] = [Wrote(rn, st) EXCEPT !.pc = "x_next"]]
          /\ UNCHANGED <<isReordering, isCancelled, timers>>
     ELSE Click(r, rn, v)

\* content.js:515-520: the second search, after scrollToBottom has resolved
SearchAgain(r, rn) ==
  LET title == rn.plan[rn.i].title
      v == findVideoElementByTitle(dom, title)
  IN IF v = 0
     THEN Catch(r, rn, Message("Could not find video after scrolling to the bottom", 0,
                               title, <<>>))
     ELSE Click(r, rn, v)

\* content.js:484-493: the call, up to its first await
executeReorder(r, planToExecute) ==
  LET rn == [IdleRun EXCEPT !.kind = "exec", !.plan = planToExecute] IN
  /\ isReordering' = TRUE
  /\ IF Len(planToExecute) = 0
     THEN LET st == StatusRecord("error", 0, 0,
                      ExecutionFailed(Message("Reorder plan is missing or empty.", 0, <<>>, <<>>)),
                      <<>>) IN
          /\ status' = st
          /\ runs' = [runs EXCEPT ![r] = [Wrote(rn, st) EXCEPT !.pc = "x_fin"]]
     ELSE LET st == Reordering(rn, 0, NoMessage) IN
          /\ status' = st
          /\ runs' = [runs EXCEPT ![r] = [Wrote(rn, st) EXCEPT !.pc = "x_begin"]]
  /\ UNCHANGED <<isCancelled, timers>>

\* ExecBegin with the loop started one item too early: the last plan item is left out
ExecBeginSkipLast(r) ==
  /\ runs[r].pc = "x_begin"
  /\ IF ~container
     THEN Catch(r, runs[r], Message("Could not find playlist container.", 0, <<>>, <<>>))
     ELSE LoopHead(r, [runs[r] EXCEPT !.i = Len(runs[r].plan) - 1])
  /\ UNCHANGED <<pageVars, execGets, timerGets, quota, response, history, others>>

\* content.js:495-503: the container check and the first iteration
ExecBegin(r) ==
  /\ runs[r].pc = "x_begin"
  /\ IF ~container
     THEN Catch(r, runs[r], Message("Could not find playlist container.", 0, <<>>, <<>>))
     ELSE LoopHead(r, [runs[r] EXCEPT !.i = Len(runs[r].plan)])
  /\ UNCHANGED <<pageVars, execGets, timerGets, quota, response, history, others>>

\* ExecNext stepping over every other item
ExecNextSkip(r) ==
  /\ runs[r].pc = "x_next"
  /\ LoopHead(r, [runs[r] EXCEPT !.i = @ - 2])
  /\ UNCHANGED <<pageVars, execGets, timerGets, quota, response, history, others>>

\* content.js:532-533, 503: after the await of updateStatus, i-- and the next iteration
ExecNext(r) ==
  /\ runs[r].pc = "x_next"
  /\ LoopHead(r, [runs[r] EXCEPT !.i = @ - 1])
  /\ UNCHANGED <<pageVars, execGets, timerGets, quota, response, history, others>>

\* content.js:505-506, 535: after the await of updateStatus('idle'), the break
ExecCancelled(r) ==
  /\ runs[r].pc = "x_cancelled"
  /\ AfterLoop(r, runs[r])
  /\ UNCHANGED <<pageVars, execGets, timerGets, quota, response, history, others>>

\* content.js:477-481: after the 200 ms wait, the click on 'Move to top'
ExecMenu(r) ==
  /\ runs[r].pc = "x_menu"
  /\ \E targetOption \in BOOLEAN :
       LET rn == runs[r]
           st == Reordering(rn, Len(rn.plan) - rn.i + 1, NoMessage)
       IN IF targetOption
          THEN /\ pageMoves' = pageMoves \cup {rn.target}
               /\ runs' = [runs EXCEPT ![r] = [rn EXCEPT !.pc = "x_poll", !.polls = 0]]
               /\ status' = status
          ELSE /\ pageMoves' = pageMoves
               /\ runs' = [runs EXCEPT ![r] =
                            [Wrote(rn, st) EXCEPT !.pc = "x_next", !.effective = FALSE]]
               /\ status' = st
  /\ UNCHANGED <<isReordering, isCancelled, timers, dom, unloaded, loading, container,
                 execGets, timerGets, quota, response, history, others>>

\* content.js:456-470: one retry of waitForMove
ExecPoll(r) ==
  /\ runs[r].pc = "x_poll"
  /\ LET rn == runs[r]
         st == Reordering(rn, Len(rn.plan) - rn.i + 1, NoMessage)
     IN IF container /\ dom # <<>> /\ TitleMatches(dom[1], rn.plan[rn.i].title)
        THEN /\ runs' = [runs EXCEPT ![r] = [rn EXCEPT !.pc = "x_stable"]]
             /\ status' = status
        ELSE IF rn.polls + 1 >= maxRetries
        THEN /\ runs' = [runs EXCEPT ![r] =
                          [Wrote(rn, st) EXCEPT !.pc = "x_next", !.polls = 0,
                              !.effective = @ /\ rn.target \notin pageMoves]]
             /\ status' = st
        ELSE /\ runs' = [runs EXCEPT ![r] = [rn EXCEPT !.polls = @ + 1]]
             /\ status' = status
  /\ UNCHANGED <<isReordering, isCancelled, timers, pageVars, execGets, timerGets, quota,
                 response, history, others>>

\* content.js:465-466, 532: waitForDOMStability resolves, the progress is written
ExecStable(r) ==
  /\ runs[r].pc = "x_stable"
  /\ LET rn == runs[r]
         st == Reordering(rn, Len(rn.plan) - rn.i + 1, NoMessage)
     IN /\ runs' = [runs EXCEPT ![r] =
                     [Wrote(rn, st) EXCEPT !.pc = "x_next", !.polls = 0,
                         !.effective = @ /\ rn.target \notin pageMoves]]
        /\ status' = st
  /\ UNCHANGED <<isReordering, isCancelled, timers, pageVars, execGets, timerGets, quota,
                 response, history, others>>

\* content.js:435-441: the page changes a child of the playlist contents while
\* waitForDOMStability observes them; the observer clears the timeout and sets it anew
DomMutation(r) ==
  /\ runs[r].kind = "exec"
  /\ runs[r].pc \in {"x_stable", "x_unstable"}
  /\ runs' = [runs EXCEPT ![r] = [@ EXCEPT !.pc = "x_unstable"]]
  /\ UNCHANGED <<isReordering, isCancelled, status, timers, pageVars, execGets, timerGets,
                 quota, response, history, others>>

\* content.js:437-440: the timeout set by the observer has run its 500 ms
StableQuiet(r) ==
  /\ runs[r].kind = "exec"
  /\ runs[r].pc = "x_unstable"
  /\ runs' = [runs EXCEPT ![r] = [@ EXCEPT !.pc = "x_stable"]]
  /\ UNCHANGED <<isReordering, isCancelled, status, timers, pageVars, execGets, timerGets,
                 quota, response, history, others>>

\* content.js:548-558
ExecFinally(r) ==
  /\ runs[r].pc = "x_fin"
  /\ Finally(r, runs[r])
  /\ UNCHANGED <<pageVars, execGets, timerGets, quota, response, history, others>>
(***************************************************************************)
(* verifyOrder (content.js:561-590) and what executeReorder does with its  *)
(* result (content.js:540-545).                                            *)
(***************************************************************************)
\* content.js:564-565: status.reorder_status?.processed || planToVerify.length
VerifyGot(r) ==
  /\ runs[r].pc = "v_get"
  /\ LET rn == runs[r]
         currentProcessed == IF rn.processed # 0 THEN rn.processed ELSE Len(rn.plan)
         st == StatusRecord("reordering", currentProcessed, Len(rn.plan),
                            Message("Verifying final order...", 0, <<>>, <<>>), <<>>)
     IN /\ status' = st
        /\ runs' = [runs EXCEPT ![r] = [Wrote(rn, st) EXCEPT !.pc = "v_wait"]]
  /\ UNCHANGED <<isReordering, isCancelled, timers, pageVars, execGets, timerGets, quota,
                 response, history, others>>

\* content.js:568-589 after the 2000 ms wait, then content.js:541-545
VerifyRead(r) ==
  /\ runs[r].pc = "v_wait"
  /\ LET rn == [runs[r] EXCEPT !.result = CompareOrder(dom, runs[r].plan), !.seen = dom]
         n == Len(rn.plan)
         done == StatusRecord("complete", n, n, NoMessage, <<>>)
     IN IF rn.kind = "verify"
        THEN /\ runs' = [runs EXCEPT ![r] = [rn EXCEPT !.pc = "v_done"]]
             /\ UNCHANGED <<status, isReordering, isCancelled, timers>>
        ELSE IF rn.result.ok
        THEN /\ status' = done
             /\ runs' = [runs EXCEPT ![r] = [Wrote(rn, done) EXCEPT !.pc = "x_fin"]]
             /\ UNCHANGED <<isReordering, isCancelled, timers>>
        ELSE Catch(r, rn, rn.result.msg)
  /\ UNCHANGED <<pageVars, execGets, timerGets, quota, response, history, others>>

(***************************************************************************)
(* The first executeReorder and verifyOrder of content.js (175-303).  They *)
(* take no plan: they read the module's reorderPlan (content.js:3) at      *)
(* every use.  A call is a run of kind "exec1"; its plan field is the      *)
(* reorderPlan it found when it started, videoInfo the item of the         *)
(* iteration it is in.                                                     *)
(***************************************************************************)
\* content.js:184: totalVideos is read once, reorderPlan.length at every status
Reordering1(rn, processed, message) ==
  StatusRecord("reordering", processed, Len(rn.plan), message, <<>>)

\* `Cannot read properties of undefined (reading 'title')`
NoSuchItem == Message("Cannot read properties of undefined (reading 'title')", 0, <<>>, <<>>)

\* content.js:244-256: the finally block; the call is over
Finally1(r, rn) ==
  /\ reorderPlan' = <<>>
  /\ isReordering' = FALSE
  /\ isCancelled' = FALSE
  /\ timers' = timers + 1
  /\ runs' = [runs EXCEPT ![r] = IdleRun]
  /\ status' = status

\* content.js:241-243: the catch block; the message is stored as it is
Catch1(r, rn, message) ==
  LET st == StatusRecord("error", 0, 0, message, <<>>) IN
  /\ status' = st
  /\ runs' = [runs EXCEPT ![r] = [Wrote(rn, st) EXCEPT !.pc = "x_fin"]]
  /\ UNCHANGED <<isReordering, isCancelled, timers, reorderPlan>>

\* content.js:216-227: the click on the menu button, or the inner catch
Click1(r, rn, v) ==
  \E menuButton \in BOOLEAN :
     LET tried == [rn EXCEPT !.target = v, !.attempts = Append(@, rn.i)]
         st == Reordering1(rn, Len(reorderPlan) - rn.i + 1, NoMessage)
     IN /\ IF menuButton
           THEN /\ runs' = [runs EXCEPT ![r] = [tried EXCEPT !.pc = "x_menu"]]
                /\ status' = status
           ELSE /\ runs' = [runs EXCEPT ![r] =
                             [Wrote(tried, st) EXCEPT !.pc = "x_next", !.effective = FALSE]]
                /\ status' = st
        /\ UNCHANGED <<isReordering, isCancelled, timers, reorderPlan>>

\* content.js:230-235: after the loop, up to verifyOrder's storage.get
AfterLoop1(r, rn) ==
  IF isCancelled
  THEN Finally1(r, rn)
  ELSE /\ runs' = [runs EXCEPT ![r] =
                   [rn EXCEPT !.pc = "v_get",
                              !.processed = IF status.full THEN status.processed ELSE 0]]
       /\ UNCHANGED <<status, isReordering, isCancelled, timers, reorderPlan>>

\* content.js:195-214: the head of one iteration, rn.i being the 1-based index
LoopHead1(r, rn) ==
  IF rn.i < 1 THEN AfterLoop1(r, rn)
  ELSE IF isCancelled
  THEN LET st == StatusRecord("idle", 0, 0, NoMessage, <<>>) IN
       /\ status' = st
       /\ runs' = [runs EXCEPT ![r] =
                   [Wrote(rn, st) EXCEPT !.pc = "x_cancelled", !.sawCancel = TRUE]]
       /\ UNCHANGED <<isReordering, isCancelled, timers, reorderPlan>>
  ELSE IF rn.i > Len(reorderPlan)
  THEN Catch1(r, rn, NoSuchItem)
  ELSE LET videoInfo == reorderPlan[rn.i]
           at == [rn EXCEPT !.videoInfo = videoInfo]
           v == findVideoElementByTitle(dom, videoInfo.title)
           st == Reordering1(rn, Len(reorderPlan) - rn.i,
                             Message("Searching for", 0, videoInfo.title, <<>>))
       IN IF v = 0
          THEN /\ status' = st
               /\ runs' = [runs EXCEPT ![r] = [Wrote(at, st) EXCEPT !.pc = "x_search"]]
               /\ UNCHANGED <<isReordering, isCancelled, timers, reorderPlan>>
          ELSE Click1(r, at, v)

\* content.js:206-211: the second search, after scrollToBottom has resolved
SearchAgain1(r, rn) ==
  LET title == rn.videoInfo.title
      v == findVideoElementByTitle(dom, title)
  IN IF v = 0
     THEN Catch1(r, rn, Message("Could not find video after scrolling to the bottom", 0,
                                title, <<>>))
     ELSE Click1(r, rn, v)

\* content.js:175-185: the call, up to its first await, or its early return
executeReorder1(r) ==
  IF Len(reorderPlan) = 0
  THEN /\ isReordering' = FALSE
       /\ UNCHANGED <<status, runs, isCancelled, timers, reorderPlan>>
  ELSE LET rn == [IdleRun EXCEPT !.kind = "exec1", !.plan = reorderPlan]
           st == Reordering1(rn, 0, NoMessage)
       IN /\ isReordering' = TRUE
          /\ status' = st
          /\ runs' = [runs EXCEPT ![r] = [Wrote(rn, st) EXCEPT !.pc = "x_begin"]]
          /\ UNCHANGED <<isCancelled, timers, reorderPlan>>

(***************************************************************************)
(* scrollToBottom (content.js:338-371).                                    *)
(***************************************************************************)
\* what the caller does once the promise has resolved
Scrolled(r, rn) ==
  IF rn.kind = "gen"
  THEN /\ runs' = [runs EXCEPT ![r] = [rn EXCEPT !.pc = "g_wait"]]
       /\ UNCHANGED <<status, isReordering, isCancelled, timers>>
  ELSE IF rn.kind = "exec1"
  THEN SearchAgain1(r, rn)
  ELSE SearchAgain(r, rn)

\* content.js:339-351, 369: the call; without the container it resolves at once
scrollToBottom(r, rn) ==
  IF ~container
  THEN Scrolled(r, rn)
  ELSE /\ runs' = [runs EXCEPT ![r] =
                   [rn EXCEPT !.pc = IF rn.kind = "gen" THEN "g_scroll" ELSE "x_scroll",
                              !.lastHeight = 0, !.consecutiveStops = 0, !.ticks = 0]]
       /\ UNCHANGED <<status, isReordering, isCancelled, timers>>

\* ScrollTick that goes on counting after the third unchanged height
ScrollTickNoStop(r) ==
  /\ runs[r].pc \in {"g_scroll", "x_scroll"}
  /\ runs[r].ticks < FailsafeTicks
  /\ loading' = (loading \/ unloaded # <<>>)
  /\ LET rn == [runs[r] EXCEPT !.ticks = @ + 1]
         currentHeight == Height(dom)
     IN IF currentHeight = rn.lastHeight
        THEN runs' = [runs EXCEPT ![r] = [rn EXCEPT !.consecutiveStops = @ + 1]]
        ELSE runs' = [runs EXCEPT ![r] =
                       [rn EXCEPT !.consecutiveStops = 0, !.lastHeight = currentHeight]]
  /\ UNCHANGED <<status, isReordering, isCancelled, timers, dom, unloaded, container,
                 pageMoves, execGets, timerGets, quota, response, history, others>>

\* content.js:351-366: one period of the interval
ScrollTick(r) ==
  /\ runs[r].pc \in {"g_scroll", "x_scroll"}
  /\ runs[r].ticks < FailsafeTicks
  /\ loading' = (loading \/ unloaded # <<>>)
  /\ LET rn == [runs[r] EXCEPT !.ticks = @ + 1]
         currentHeight == Height(dom)
     IN IF currentHeight = rn.lastHeight
        THEN IF rn.consecutiveStops + 1 >= maxConsecutiveStops
             THEN Scrolled(r, [rn EXCEPT !.consecutiveStops = @ + 1])
             ELSE /\ runs' = [runs EXCEPT ![r] = [rn EXCEPT !.consecutiveStops = @ + 1]]
                  /\ UNCHANGED <<status, isReordering, isCancelled, timers>>
        ELSE /\ runs' = [runs EXCEPT ![r] =
                         [rn EXCEPT !.consecutiveStops = 0, !.lastHeight = currentHeight]]
             /\ UNCHANGED <<status, isReordering, isCancelled, timers>>
  /\ UNCHANGED <<dom, unloaded, container, pageMoves, execGets, timerGets, quota, response, history, others>>

\* content.js:369: the failsafe timeout; it is due together with the interval's
\* 30th period, and either callback may run first
ScrollFailsafe(r) ==
  /\ runs[r].pc \in {"g_scroll", "x_scroll"}
  /\ runs[r].ticks >= FailsafeTicks - 1
  /\ Scrolled(r, runs[r])
  /\ UNCHANGED <<pageVars, execGets, timerGets, quota, response, history, others>>

\* content.js:512-514: after the await of updateStatus, the call of scrollToBottom
ExecSearch(r) ==
  /\ runs[r].pc = "x_search"
  /\ scrollToBottom(r, runs[r])
  /\ UNCHANGED <<pageVars, execGets, timerGets, quota, response, history, others>>

(***************************************************************************)
(* generateReorderPlan (content.js:373-422).                               *)
(***************************************************************************)
\* content.js:374-375: the call, up to its first await
generateReorderPlan(r, order, maxLength) ==
  LET rn == [IdleRun EXCEPT !.kind = "gen", !.order = order, !.maxLength = maxLength]
      st == StatusRecord("gathering", 0, 0,
                         Message("Scrolling to load all videos...", 0, <<>>, <<>>), <<>>)
  IN /\ isReordering' = TRUE
     /\ status' = st
     /\ runs' = [runs EXCEPT ![r] = [Wrote(rn, st) EXCEPT !.pc = "g_start"]]

\* content.js:379
GenScroll(r) ==
  /\ runs[r].pc = "g_start"
  /\ scrollToBottom(r, runs[r])
  /\ UNCHANGED <<pageVars, execGets, timerGets, quota, response, history, others>>

\* content.js:380-382: after the 1000 ms wait
GenGathering(r) ==
  /\ runs[r].pc = "g_wait"
  /\ LET st == StatusRecord("gathering", 0, 0,
                            Message("Gathering video data...", 0, <<>>, <<>>), <<>>)
     IN /\ status' = st
        /\ runs' = [runs EXCEPT ![r] = [Wrote(runs[r], st) EXCEPT !.pc = "g_read"]]
  /\ UNCHANGED <<isReordering, isCancelled, timers, pageVars, execGets, timerGets, quota,
                 response, history, others>>

\* content.js:385-418: the scrape, the plan and the status that publishes it
GenScrape(r) ==
  /\ runs[r].pc = "g_read"
  /\ LET rn == [runs[r] EXCEPT !.seen = dom, !.unread = Len(unloaded)]
         st == PlanStatus(dom, rn.order, rn.maxLength)
     IN /\ status' = st
        /\ runs' = [runs EXCEPT ![r] = [Wrote(rn, st) EXCEPT !.pc = "g_end"]]
  /\ UNCHANGED <<isReordering, isCancelled, timers, pageVars, execGets, timerGets, quota,
                 response, history, others>>

\* content.js:66-103: the same in the first definitions, which keep the plan in the
\* module's reorderPlan as well (content.js:96)
GenScrape1(r) ==
  /\ runs[r].pc = "g_read"
  /\ LET rn == [runs[r] EXCEPT !.seen = dom, !.unread = Len(unloaded)]
         st == PlanStatus(dom, rn.order, rn.maxLength)
     IN /\ status' = st
        /\ reorderPlan' = IF st.state = "preview" THEN st.plan ELSE reorderPlan
        /\ runs' = [runs EXCEPT ![r] = [Wrote(rn, st) EXCEPT !.pc = "g_end"]]
  /\ UNCHANGED <<isReordering, isCancelled, timers, pageVars, execGets, timerGets, quota,
                 response, history, outside>>

\* GenEnd with the reset that executeReorder's finally has
GenEndReset(r) ==
  /\ runs[r].pc = "g_end"
  /\ runs' = [runs EXCEPT ![r] = IdleRun]
  /\ isReordering' = FALSE
  /\ UNCHANGED <<status, isCancelled, timers, pageVars, execGets, timerGets,
                 quota, response, history, others>>

\* content.js:419-422: the call is over; isReordering is not reset
GenEnd(r) ==
  /\ runs[r].pc = "g_end"
  /\ runs' = [runs EXCEPT ![r] = IdleRun]
  /\ UNCHANGED <<status, isReordering, isCancelled, timers, pageVars, execGets, timerGets,
                 quota, response, history, others>>
(***************************************************************************)
(* The onMessage listener (content.js:592-617).                            *)
(***************************************************************************)
Orders == {"asc", "desc"}

\* maxLength as the popup sends it: minutes * 60, NaN for an empty field
MaxLengths == {NaN, 0, 120}

\* RecvGeneratePlan without the isReordering guard
RecvGeneratePlanUnguarded(order, maxLength) ==
  /\ quota > 0
  /\ quota' = quota - 1
  /\ generateReorderPlan(NewId, order, maxLength)
  /\ response' = "started"
  /\ history' = [history EXCEPT !.later = history.cancelled]
  /\ UNCHANGED <<isCancelled, timers, pageVars, execGets, timerGets, others>>

\* content.js:593-599
RecvGeneratePlan(order, maxLength) ==
  /\ quota > 0
  /\ quota' = quota - 1
  /\ IF isReordering
     THEN /\ response' = "An operation is already in progress."
          /\ UNCHANGED <<isReordering, status, runs>>
     ELSE /\ generateReorderPlan(NewId, order, maxLength)
          /\ response' = "started"
  /\ history' = [history EXCEPT !.later = history.cancelled]
  /\ UNCHANGED <<isCancelled, timers, pageVars, execGets, timerGets, others>>

\* content.js:600-608: the storage.get is issued; the answer comes with its callback
RecvExecuteReorder ==
  /\ quota > 0
  /\ quota' = quota - 1
  /\ execGets' = Append(execGets, [full |-> status.full, plan |-> status.plan])
  /\ history' = [history EXCEPT !.later = history.cancelled]
  /\ UNCHANGED <<isReordering, isCancelled, status, runs, timers, pageVars, timerGets,
                 response, others>>

\* content.js:602-607: the callback of that storage.get
ExecGetCallback ==
  /\ execGets # <<>>
  /\ execGets' = Tail(execGets)
  /\ LET data == Head(execGets) IN
     IF data.full
     THEN /\ executeReorder(NewId, data.plan)
          /\ response' = "executing"
     ELSE UNCHANGED <<isReordering, isCancelled, status, runs, timers, response>>
  /\ UNCHANGED <<pageVars, timerGets, quota, history, others>>

\* an executeReorder call is between its first await and its finally block
ExecActive == \E r \in RunIds : runs[r].kind = "exec"

\* content.js:609-616
RecvCancelReorder ==
  /\ quota > 0
  /\ quota' = quota - 1
  /\ IF isReordering
     THEN /\ isCancelled' = TRUE
          /\ isReordering' = FALSE
          /\ status' = StatusRecord("idle", 0, 0, NoMessage, <<>>)
          /\ response' = "cancelling"
          /\ runs' = [r \in RunIds |->
                       IF \/ runs[r].kind = "exec" /\ runs[r].pc \in LoopPcs
                          \/ runs[r].kind = "gen"
                       THEN [runs[r] EXCEPT !.cancelled = TRUE] ELSE runs[r]]
          /\ history' = [cancelled |-> (history.cancelled \/ ExecActive),
                          later |-> history.cancelled]
     ELSE /\ history' = [history EXCEPT !.later = history.cancelled]
          /\ UNCHANGED <<isCancelled, isReordering, status, response, runs>>
  /\ UNCHANGED <<timers, pageVars, execGets, timerGets, others>>

(***************************************************************************)
(* The steps of the first executeReorder (content.js:175-257) and of its   *)
(* verifyOrder (content.js:259-303).  The search for an item that is not   *)
(* rendered goes through ExecSearch and scrollToBottom above.              *)
(***************************************************************************)
\* content.js:187-195: the container check and the first iteration
Exec1Begin(r) ==
  /\ runs[r].kind = "exec1" /\ runs[r].pc = "x_begin"
  /\ IF ~container
     THEN Catch1(r, runs[r], Message("Could not find playlist container.", 0, <<>>, <<>>))
     ELSE LoopHead1(r, [runs[r] EXCEPT !.i = Len(reorderPlan)])
  /\ UNCHANGED <<pageVars, execGets, timerGets, quota, response, history, outside>>

\* content.js:227, 195: after the await of updateStatus, i-- and the next iteration
Exec1Next(r) ==
  /\ runs[r].kind = "exec1" /\ runs[r].pc = "x_next"
  /\ LoopHead1(r, [runs[r] EXCEPT !.i = @ - 1])
  /\ UNCHANGED <<pageVars, execGets, timerGets, quota, response, history, outside>>

\* content.js:198-199, 230: after the await of updateStatus('idle'), the break
Exec1Cancelled(r) ==
  /\ runs[r].kind = "exec1" /\ runs[r].pc = "x_cancelled"
  /\ AfterLoop1(r, runs[r])
  /\ UNCHANGED <<pageVars, execGets, timerGets, quota, response, history, outside>>

\* content.js:168-172: after the 200 ms wait, the click on 'Move to top'
Exec1Menu(r) ==
  /\ runs[r].kind = "exec1" /\ runs[r].pc = "x_menu"
  /\ \E targetOption \in BOOLEAN :
       LET rn == runs[r]
           st == Reordering1(rn, Len(reorderPlan) - rn.i + 1, NoMessage)
       IN IF targetOption
          THEN /\ pageMoves' = pageMoves \cup {rn.target}
               /\ runs' = [runs EXCEPT ![r] = [rn EXCEPT !.pc = "x_poll", !.polls = 0]]
               /\ status' = status
          ELSE /\ pageMoves' = pageMoves
               /\ runs' = [runs EXCEPT ![r] =
                            [Wrote(rn, st) EXCEPT !.pc = "x_next", !.effective = FALSE]]
               /\ status' = st
  /\ UNCHANGED <<isReordering, isCancelled, timers, dom, unloaded, loading, container,
                 execGets, timerGets, quota, response, history, reorderPlan, outside>>

\* content.js:146-161: one retry of waitForMove
Exec1Poll(r) ==
  /\ runs[r].kind = "exec1" /\ runs[r].pc = "x_poll"
  /\ LET rn == runs[r]
         st == Reordering1(rn, Len(reorderPlan) - rn.i + 1, NoMessage)
     IN IF container /\ dom # <<>> /\ TitleMatches(dom[1], rn.videoInfo.title)
        THEN /\ runs' = [runs EXCEPT ![r] = [rn EXCEPT !.pc = "x_stable"]]
             /\ status' = status
        ELSE IF rn.polls + 1 >= maxRetries
        THEN /\ runs' = [runs EXCEPT ![r] =
                          [Wrote(rn, st) EXCEPT !.pc = "x_next", !.polls = 0,
                              !.effective = @ /\ rn.target \notin pageMoves]]
             /\ status' = st
        ELSE /\ runs' = [runs EXCEPT ![r] = [rn EXCEPT !.polls = @ + 1]]
             /\ status' = status
  /\ UNCHANGED <<isReordering, isCancelled, timers, pageVars, execGets, timerGets, quota,
                 response, history, reorderPlan, outside>>

\* content.js:155-157, 227: waitForDOMStability resolves, the progress is written
Exec1Stable(r) ==
  /\ runs[r].kind = "exec1" /\ runs[r].pc = "x_stable"
  /\ LET rn == runs[r]
         st == Reordering1(rn, Len(reorderPlan) - rn.i + 1, NoMessage)
     IN /\ runs' = [runs EXCEPT ![r] =
                     [Wrote(rn, st) EXCEPT !.pc = "x_next", !.polls = 0,
                         !.effective = @ /\ rn.target \notin pageMoves]]
        /\ status' = st
  /\ UNCHANGED <<isReordering, isCancelled, timers, pageVars, execGets, timerGets, quota,
                 response, history, reorderPlan, outside>>

\* content.js:244-256
Exec1Finally(r) ==
  /\ runs[r].kind = "exec1" /\ runs[r].pc = "x_fin"
  /\ Finally1(r, runs[r])
  /\ UNCHANGED <<pageVars, execGets, timerGets, quota, response, history, outside>>

\* content.js:262-263: status.reorder_status?.processed || reorderPlan.length
Verify1Got(r) ==
  /\ runs[r].kind = "exec1" /\ runs[r].pc = "v_get"
  /\ LET rn == runs[r]
         currentProcessed == IF rn.processed # 0 THEN rn.processed ELSE Len(reorderPlan)
         st == StatusRecord("reordering", currentProcessed, Len(reorderPlan),
                            Message("Verifying final order...", 0, <<>>, <<>>), <<>>)
     IN /\ status' = st
        /\ runs' = [runs EXCEPT ![r] = [Wrote(rn, st) EXCEPT !.pc = "v_wait"]]
  /\ UNCHANGED <<isReordering, isCancelled, timers, pageVars, execGets, timerGets, quota,
                 response, history, reorderPlan, outside>>

\* content.js:266-302 after the 2000 ms wait, then content.js:236-240
Verify1Read(r) ==
  /\ runs[r].kind = "exec1" /\ runs[r].pc = "v_wait"
  /\ LET rn == [runs[r] EXCEPT !.result = CompareOrder(dom, reorderPlan), !.seen = dom]
         totalVideos == Len(rn.plan)
         done == StatusRecord("complete", totalVideos, totalVideos, NoMessage, <<>>)
     IN IF rn.result.ok
        THEN /\ status' = done
             /\ runs' = [runs EXCEPT ![r] = [Wrote(rn, done) EXCEPT !.pc = "x_fin"]]
             /\ UNCHANGED <<isReordering, isCancelled, timers, reorderPlan>>
        ELSE Catch1(r, rn, rn.result.msg)
  /\ UNCHANGED <<pageVars, execGets, timerGets, quota, response, history, outside>>

(***************************************************************************)
(* The first onMessage listener (content.js:305-325).                      *)
(***************************************************************************)
\* content.js:313-315: executeReorder is called at once; the answer does not depend
\* on what the call did
RecvExecuteReorder1 ==
  /\ quota > 0
  /\ quota' = quota - 1
  /\ executeReorder1(NewId)
  /\ response' = "executing"
  /\ UNCHANGED <<pageVars, execGets, timerGets, history, outside>>

\* content.js:316-323
RecvCancelReorder1 ==
  /\ quota > 0
  /\ quota' = quota - 1
  /\ IF isReordering
     THEN /\ isCancelled' = TRUE
          /\ isReordering' = FALSE
          /\ reorderPlan' = <<>>
          /\ status' = StatusRecord("idle", 0, 0, NoMessage, <<>>)
          /\ response' = "cancelling"
     ELSE UNCHANGED <<isCancelled, isReordering, reorderPlan, status, response>>
  /\ UNCHANGED <<runs, timers, pageVars, execGets, timerGets, history, outside>>

(***************************************************************************)
(* The 5000 ms timeout of executeReorder's finally (content.js:551-557).   *)
(***************************************************************************)
\* the timeout fires and issues its storage.get
TimerFire ==
  /\ timers > 0
  /\ timers' = timers - 1
  /\ timerGets' = IF status.state = "complete" THEN timerGets + 1 ELSE timerGets
  /\ UNCHANGED <<isReordering, isCancelled, status, runs, pageVars, execGets, quota,
                 response, history, others>>

\* the callback of a get that read 'complete': updateStatus('idle')
TimerIdle ==
  /\ timerGets > 0
  /\ timerGets' = timerGets - 1
  /\ status' = StatusRecord("idle", 0, 0, NoMessage, <<>>)
  /\ UNCHANGED <<isReordering, isCancelled, runs, timers, pageVars, execGets, quota,
                 response, history, others>>

(***************************************************************************)
(* The page.                                                               *)
(***************************************************************************)
\* the page applies a 'Move to top' it was asked for
PageMove(v) ==
  /\ v \in pageMoves
  /\ pageMoves' = pageMoves \ {v}
  /\ dom' = IF InDom(dom, v) THEN MoveToTop(dom, v) ELSE dom
  /\ runs' = [r \in RunIds |->
               IF runs[r].kind = "exec"
                  /\ ~(runs[r].pc \in {"x_poll", "x_stable", "x_unstable"} /\ runs[r].target = v)
               THEN [runs[r] EXCEPT !.disturbed = TRUE] ELSE runs[r]]
  /\ UNCHANGED <<isReordering, isCancelled, status, unloaded, loading, container, execGets,
                 timers, timerGets, quota, response, history, others>>

\* the page renders the next video after a scroll to the bottom
PageLoad ==
  /\ loading
  /\ unloaded # <<>>
  /\ dom' = Append(dom, Head(unloaded))
  /\ unloaded' = Tail(unloaded)
  /\ loading' = FALSE
  /\ UNCHANGED <<isReordering, isCancelled, status, container, pageMoves, runs, execGets,
                 timers, timerGets, quota, response, history, others>>

(***************************************************************************)
(* The page script with its requests: any interleaving.                    *)
(***************************************************************************)
\* the sequences without repetition over a set of videos
RECURSIVE Arrangements(_)
Arrangements(S) ==
  {<<>>} \cup UNION {{<<v>> \o t : t \in Arrangements(S \ {v})} : v \in S}

\* content.js:326-331: the module initialisation
InitScript ==
  /\ isReordering = FALSE
  /\ isCancelled = FALSE
  /\ status = BareIdle
  /\ execGets = <<>>
  /\ timers = 0
  /\ timerGets = 0
  /\ response = "none"
  /\ history = [cancelled |-> FALSE, later |-> FALSE]
  /\ OthersIdle

Init ==
  /\ InitScript
  /\ runs = [r \in 1..MaxMsgs |-> IdleRun]
  /\ quota = MaxMsgs
  /\ dom \in Arrangements(1..MaxVideos)
  /\ unloaded = <<>>
  /\ loading = FALSE
  /\ container \in BOOLEAN
  /\ pageMoves = {}

Next ==
  \/ \E order \in Orders, maxLength \in MaxLengths : RecvGeneratePlan(order, maxLength)
  \/ RecvExecuteReorder
  \/ ExecGetCallback
  \/ RecvCancelReorder
  \/ \E r \in RunIds : GenScroll(r)
  \/ \E r \in RunIds : ScrollTick(r)
  \/ \E r \in RunIds : GenGathering(r)
  \/ \E r \in RunIds : GenScrape(r)
  \/ \E r \in RunIds : GenEnd(r)
  \/ \E r \in RunIds : ExecBegin(r)
  \/ \E r \in RunIds : ExecNext(r)
  \/ \E r \in RunIds : ExecCancelled(r)
  \/ \E r \in RunIds : ExecSearch(r)
  \/ \E r \in RunIds : ExecMenu(r)
  \/ \E r \in RunIds : ExecPoll(r)
  \/ \E r \in RunIds : ExecStable(r)
  \/ \E r \in RunIds : ExecFinally(r)
  \/ \E r \in RunIds : VerifyGot(r)
  \/ \E r \in RunIds : VerifyRead(r)
  \/ TimerFire
  \/ TimerIdle
  \/ \E v \in pageMoves : PageMove(v)

Spec == Init /\ [][Next]_vars
(***************************************************************************)
(* SpecExec: the plan has been published ('preview'); executeReorder and   *)
(* cancelReorder requests follow, one call of executeReorder at a time.    *)
(* SpecRace: the same with two calls at a time, on a shorter playlist.     *)
(***************************************************************************)
\* the script once generateReorderPlan has published the plan of the page
Previewed ==
  /\ unloaded = <<>>
  /\ loading = FALSE
  /\ container = TRUE
  /\ pageMoves = {}
  /\ isReordering = TRUE
  /\ isCancelled \in BOOLEAN
  /\ \E order \in Orders, maxLength \in MaxLengths :
        /\ status = PlanStatus(dom, order, maxLength)
        /\ status.state = "preview"
  /\ execGets = <<>>
  /\ timers = 0
  /\ timerGets = 0
  /\ response = "started"
  /\ history = [cancelled |-> FALSE, later |-> FALSE]
  /\ OthersIdle

InitExec ==
  /\ dom \in Arrangements(1..ExecVideos)
  /\ Previewed
  /\ runs = [r \in 1..ExecMsgs |-> IdleRun]
  /\ quota = ExecMsgs

InitRace ==
  /\ dom \in Arrangements(1..RaceVideos)
  /\ Previewed
  /\ runs = [r \in 1..RaceMsgs |-> IdleRun]
  /\ quota = RaceMsgs

\* the steps of a call whose plan items are all found at the first search
NextRace ==
  \/ RecvExecuteReorder
  \/ ExecGetCallback
  \/ RecvCancelReorder
  \/ \E r \in RunIds : ExecBegin(r)
  \/ \E r \in RunIds : ExecNext(r)
  \/ \E r \in RunIds : ExecCancelled(r)
  \/ \E r \in RunIds : ExecMenu(r)
  \/ \E r \in RunIds : ExecPoll(r)
  \/ \E r \in RunIds : ExecStable(r)
  \/ \E r \in RunIds : ExecFinally(r)
  \/ \E r \in RunIds : VerifyGot(r)
  \/ \E r \in RunIds : VerifyRead(r)
  \/ TimerFire
  \/ TimerIdle
  \/ \E v \in pageMoves : PageMove(v)

NextExec ==
  \/ NextRace
  \/ \E r \in RunIds : ExecSearch(r)
  \/ \E r \in RunIds : ScrollTick(r)

SpecExec == InitExec /\ [][NextExec]_vars

\* SpecExecFair: the same on a page that may go on changing the playlist contents;
\* every continuation of the call (a timer, a storage callback) runs when it is due
NextExecFair ==
  \/ NextExec
  \/ \E r \in RunIds : DomMutation(r)
  \/ \E r \in RunIds : StableQuiet(r)

ExecFairness ==
  /\ WF_vars(ExecGetCallback)
  /\ WF_vars(\E r \in RunIds : ExecBegin(r))
  /\ WF_vars(\E r \in RunIds : ExecNext(r))
  /\ WF_vars(\E r \in RunIds : ExecCancelled(r))
  /\ WF_vars(\E r \in RunIds : ExecMenu(r))
  /\ WF_vars(\E r \in RunIds : ExecPoll(r))
  /\ WF_vars(\E r \in RunIds : ExecStable(r))
  /\ WF_vars(\E r \in RunIds : StableQuiet(r))
  /\ WF_vars(\E r \in RunIds : ExecSearch(r))
  /\ WF_vars(\E r \in RunIds : ScrollTick(r))
  /\ WF_vars(\E r \in RunIds : VerifyGot(r))
  /\ WF_vars(\E r \in RunIds : VerifyRead(r))
  /\ WF_vars(\E r \in RunIds : ExecFinally(r))

SpecExecFair == InitExec /\ [][NextExecFair]_vars /\ ExecFairness

SpecRace == InitRace /\ [][NextRace]_vars
(***************************************************************************)
(* SpecFirst: the first definitions of content.js (1-325) once their       *)
(* generateReorderPlan has stored the plan in reorderPlan and published    *)
(* it; generatePlan, executeReorder and cancelReorder requests follow.     *)
(***************************************************************************)
FirstVideos == 3
FirstMsgs == 2

\* content.js:96-98: reorderPlan = videoData, then the status 'preview'
Previewed1 ==
  /\ unloaded = <<>>
  /\ loading = FALSE
  /\ container = TRUE
  /\ pageMoves = {}
  /\ isReordering = TRUE
  /\ isCancelled = FALSE
  /\ \E order \in Orders, maxLength \in MaxLengths :
        /\ status = PlanStatus(dom, order, maxLength)
        /\ status.state = "preview"
  /\ reorderPlan = status.plan
  /\ execGets = <<>>
  /\ timers = 0
  /\ timerGets = 0
  /\ response = "started"
  /\ history = [cancelled |-> FALSE, later |-> FALSE]
  /\ loaded = [count |-> 0, before |-> "none"]
  /\ popup = ClosedPopup
  /\ relay = <<>>

InitFirst ==
  /\ dom \in Arrangements(1..FirstVideos)
  /\ Previewed1
  /\ runs = [r \in 1..FirstMsgs |-> IdleRun]
  /\ quota = FirstMsgs

NextFirst ==
  \/ \E order \in Orders, maxLength \in MaxLengths : RecvGeneratePlan(order, maxLength)
  \/ RecvExecuteReorder1
  \/ RecvCancelReorder1
  \/ \E r \in RunIds : GenScroll(r)
  \/ \E r \in RunIds : GenGathering(r)
  \/ \E r \in RunIds : GenScrape1(r)
  \/ \E r \in RunIds : GenEnd(r)
  \/ \E r \in RunIds : Exec1Begin(r)
  \/ \E r \in RunIds : Exec1Next(r)
  \/ \E r \in RunIds : Exec1Cancelled(r)
  \/ \E r \in RunIds : ExecSearch(r)
  \/ \E r \in RunIds : ScrollTick(r)
  \/ \E r \in RunIds : Exec1Menu(r)
  \/ \E r \in RunIds : Exec1Poll(r)
  \/ \E r \in RunIds : Exec1Stable(r)
  \/ \E r \in RunIds : Exec1Finally(r)
  \/ \E r \in RunIds : Verify1Got(r)
  \/ \E r \in RunIds : Verify1Read(r)
  \/ TimerFire
  \/ TimerIdle
  \/ \E v \in pageMoves : PageMove(v)

SpecFirst == InitFirst /\ [][NextFirst]_vars
(***************************************************************************)
(* SpecPlan: generateReorderPlan on a rendered playlist, whatever order    *)
(* and maxLength the request carries.                                      *)
(***************************************************************************)
\* maxLength in seconds, NaN for a field that is no number
PlanLengths == {NaN, 0, 29, 30, 120, 300}

InitPlan ==
  /\ InitScript
  /\ runs = [r \in {1} |-> IdleRun]
  /\ quota = 1
  /\ dom \in Arrangements(1..PlanVideos)
  /\ unloaded = <<>>
  /\ loading = FALSE
  /\ container \in BOOLEAN
  /\ pageMoves = {}

NextPlan ==
  \/ \E order \in Orders, maxLength \in PlanLengths : RecvGeneratePlan(order, maxLength)
  \/ \E r \in RunIds : GenScroll(r)
  \/ \E r \in RunIds : ScrollTick(r)
  \/ \E r \in RunIds : GenGathering(r)
  \/ \E r \in RunIds : GenScrape(r)
  \/ \E r \in RunIds : GenEnd(r)

SpecPlan == InitPlan /\ [][NextPlan]_vars

(***************************************************************************)
(* SpecScroll: generateReorderPlan on a playlist the page renders one      *)
(* video at a time, each after a scroll to the bottom.                     *)
(***************************************************************************)
InitScroll ==
  /\ InitScript
  /\ runs = [r \in {1} |-> IdleRun]
  /\ quota = 1
  /\ \E n \in 0..ScrollVideos, k \in 0..ScrollVideos :
        /\ k <= n
        /\ dom = [j \in 1..k |-> j]
        /\ unloaded = [j \in 1..(n - k) |-> k + j]
  /\ loading = FALSE
  /\ container = TRUE
  /\ pageMoves = {}

NextScroll ==
  \/ \E order \in Orders : RecvGeneratePlan(order, 0)
  \/ \E r \in RunIds : GenScroll(r)
  \/ \E r \in RunIds : ScrollTick(r)
  \/ \E r \in RunIds : ScrollFailsafe(r)
  \/ \E r \in RunIds : GenGathering(r)
  \/ \E r \in RunIds : GenScrape(r)
  \/ \E r \in RunIds : GenEnd(r)
  \/ PageLoad

SpecScroll == InitScroll /\ [][NextScroll]_vars

\* SpecScrollFair: the same, also on a page without the playlist container; the
\* interval and the timeout of scrollToBottom are timers of the page, which fire
InitScrollAny ==
  /\ InitScript
  /\ runs = [r \in {1} |-> IdleRun]
  /\ quota = 1
  /\ \E n \in 0..ScrollVideos, k \in 0..ScrollVideos :
        /\ k <= n
        /\ dom = [j \in 1..k |-> j]
        /\ unloaded = [j \in 1..(n - k) |-> k + j]
  /\ loading = FALSE
  /\ container \in BOOLEAN
  /\ pageMoves = {}

SpecScrollFair ==
  /\ InitScrollAny
  /\ [][NextScroll]_vars
  /\ WF_vars(\E r \in RunIds : ScrollTick(r))
  /\ WF_vars(\E r \in RunIds : ScrollFailsafe(r))

(***************************************************************************)
(* SpecVerify: one call of verifyOrder(planToVerify), as the tests make    *)
(* it, on any page and any plan.                                           *)
(***************************************************************************)
RECURSIVE SeqsUpTo(_, _)
SeqsUpTo(S, n) ==
  IF n = 0 THEN {<<>>}
  ELSE LET shorter == SeqsUpTo(S, n - 1) IN
       shorter \cup {Append(t, x) : t \in shorter, x \in S}

\* the entries a plan to verify is made of: the videos of the page, and one that is not there
VerifyEntries ==
  {VideoData(v) : v \in 1..VerifyVideos} \cup {[duration |-> 0, title |-> <<"Z">>]}

InitVerify ==
  /\ isReordering = FALSE
  /\ isCancelled = FALSE
  /\ status \in {BareIdle, StatusRecord("reordering", 1, 1, NoMessage, <<>>)}
  /\ \E planToVerify \in SeqsUpTo(VerifyEntries, VerifyLen) :
        runs = [r \in {1} |->
                 [IdleRun EXCEPT !.kind = "verify", !.pc = "v_get", !.plan = planToVerify,
                                 !.processed = IF status.full THEN status.processed ELSE 0]]
  /\ dom \in Arrangements(1..VerifyVideos)
  /\ unloaded = <<>>
  /\ loading = FALSE
  /\ container = TRUE
  /\ pageMoves = {}
  /\ execGets = <<>>
  /\ timers = 0
  /\ timerGets = 0
  /\ quota = 0
  /\ response = "none"
  /\ history = [cancelled |-> FALSE, later |-> FALSE]
  /\ OthersIdle

NextVerify ==
  \/ \E r \in RunIds : VerifyGot(r)
  \/ \E r \in RunIds : VerifyRead(r)

SpecVerify == InitVerify /\ [][NextVerify]_vars
(***************************************************************************)
(* Properties of executeReorder (SpecExec).                                *)
(***************************************************************************)
DistinctTitles(plan) ==
  \A a, b \in 1..Len(plan) : a # b => plan[a].title # plan[b].title

\* every plan item is an element findVideoElementByTitle finds in the live list
AllPresent(plan) ==
  \A a \in 1..Len(plan) : findVideoElementByTitle(dom, plan[a].title) # 0

\* verifyOrder has returned to the run
Verified(rn) == rn.result.ok \/ rn.result.msg # NoMessage

\* the status 'complete' with processed = total = n
Complete(n) == StatusRecord("complete", n, n, NoMessage, <<>>)

\* a run in the move loop's terms: its plan is not empty (an empty plan is refused
\* before the loop), the titles are distinct and present, the run has not found
\* isCancelled set, every click it made was applied by the page before waitForMove
\* returned, and the page applied no other move meanwhile
CleanRun(rn) ==
  /\ rn.kind = "exec"
  /\ Len(rn.plan) > 0
  /\ container
  /\ DistinctTitles(rn.plan)
  /\ AllPresent(rn.plan)
  /\ ~rn.sawCancel
  /\ rn.effective
  /\ ~rn.disturbed

\* C1: a run of a non-empty plan with distinct titles, all present, that is not
\* cancelled and whose clicks all take effect leaves the loop with the first |plan|
\* live items being the plan's titles in plan order; its verification returns true
\* and the last status it writes is 'complete' with processed = total = |plan|.
C1_PlanOrderReached ==
  \A r \in RunIds :
     LET rn == runs[r]
         n  == Len(rn.plan)
     IN CleanRun(rn) =>
          /\ rn.pc \in {"v_get", "v_wait"} =>
                /\ Len(dom) >= n
                /\ Titles(SubSeq(dom, 1, n)) = PlanTitles(rn.plan)
          /\ rn.pc = "x_fin" =>
                /\ Verified(rn)
                /\ rn.result.ok
                /\ rn.last = Complete(n)

\* a clean run of two items has made its two moves and written 'complete'
C1_Witness ==
  \E r \in RunIds :
     /\ CleanRun(runs[r])
     /\ runs[r].pc = "x_fin"
     /\ Len(runs[r].plan) = 2
     /\ Len(runs[r].attempts) = 2
     /\ runs[r].last = Complete(2)
     /\ status = Complete(2)

\* the 1-based indices n, n-1, ..., n-k+1
Descending(n, k) == [j \in 1..k |-> n + 1 - j]

\* C2: 'Move to top' is attempted for the plan items in the order plan[|plan|-1],
\* plan[|plan|-2], ..., never twice for an item and never passing one over; a run
\* that has not found isCancelled set and has left the loop for verification (every
\* item was found) has attempted every item exactly once, down to plan[0].
C2_OncePerItemInReverse ==
  \A r \in RunIds :
     LET rn == runs[r]
         n  == Len(rn.plan)
     IN rn.kind = "exec" =>
          /\ Len(rn.attempts) <= n
          /\ rn.attempts = Descending(n, Len(rn.attempts))
          /\ (~rn.sawCancel /\ (rn.pc \in {"v_get", "v_wait"} \/ Verified(rn))) =>
                rn.attempts = Descending(n, n)

\* a run of two items that has attempted both is about to verify
C2_Witness ==
  \E r \in RunIds :
     /\ runs[r].kind = "exec"
     /\ runs[r].pc = "v_get"
     /\ ~runs[r].sawCancel
     /\ Len(runs[r].plan) = 2
     /\ runs[r].attempts = <<2, 1>>
(***************************************************************************)
(* Properties of verifyOrder (SpecVerify).                                 *)
(***************************************************************************)
\* the live item at position i carries the title the plan has there
SameTitle(seen, plan, i) == TitleOrUntitled(seen[i]) = plan[i].title

\* C3: verifyOrder(plan) returns true exactly when the live list holds at least
\* |plan| video items and the title of every live item at a position below |plan|
\* is the plan's title there; what follows position |plan| has no influence.
C3_TrueIffPrefixMatches ==
  \A r \in RunIds :
     LET rn == runs[r]
         n  == Len(rn.plan)
     IN (rn.kind = "verify" /\ rn.pc = "v_done") =>
          (rn.result.ok <=>
             (/\ Len(rn.seen) >= n
              /\ \A i \in 1..n : SameTitle(rn.seen, rn.plan, i)))

\* verifyOrder returned true on a live list longer than its plan of two items
C3_Witness ==
  \E r \in RunIds :
     /\ runs[r].kind = "verify"
     /\ runs[r].pc = "v_done"
     /\ runs[r].result.ok
     /\ Len(runs[r].plan) = 2
     /\ Len(runs[r].seen) > 2

\* C4: a result other than true is the fixed 'Not all videos were found' message
\* when the live list has fewer than |plan| items, and otherwise 'Mismatch at
\* position p' for the smallest 1-based p whose live title differs from the plan,
\* with the plan's title and the live title at p.
C4_MessageNamesFirstMismatch ==
  \A r \in RunIds :
     LET rn == runs[r]
         n  == Len(rn.plan)
     IN (rn.kind = "verify" /\ rn.pc = "v_done" /\ ~rn.result.ok) =>
          IF Len(rn.seen) < n
          THEN rn.result.msg = NotAllFound
          ELSE \E p \in 1..n :
                 /\ ~SameTitle(rn.seen, rn.plan, p)
                 /\ \A q \in 1..(p - 1) : SameTitle(rn.seen, rn.plan, q)
                 /\ rn.result.msg = Message("Mismatch at position", p, rn.plan[p].title,
                                            TitleOrUntitled(rn.seen[p]))

\* verifyOrder reported position 2 although position 3 differs as well
C4_Witness ==
  \E r \in RunIds :
     /\ runs[r].kind = "verify"
     /\ runs[r].pc = "v_done"
     /\ ~runs[r].result.ok
     /\ Len(runs[r].plan) = 3
     /\ Len(runs[r].seen) = 3
     /\ runs[r].result.msg.pos = 2
     /\ ~SameTitle(runs[r].seen, runs[r].plan, 3)
(***************************************************************************)
(* Properties of generateReorderPlan (SpecPlan).                           *)
(***************************************************************************)
Count(x, seq) == Cardinality({i \in 1..Len(seq) : seq[i] = x})

\* the same entries, each as often in a as in b
SameEntries(a, b) ==
  /\ Len(a) = Len(b)
  /\ \A i \in 1..Len(a) : Count(a[i], a) = Count(a[i], b)

\* maxLength is a positive number
Positive(maxLength) == maxLength # NaN /\ maxLength > 0

\* a duration is a number of seconds not above maxLength
Within(duration, maxLength) == duration # NaN /\ duration <= maxLength

\* what the run scraped, and of it what the claim lets into the plan
Scraped(rn) == MapVideoData(rn.seen)

Expected(rn) ==
  IF Positive(rn.maxLength)
  THEN SelectSeq(Scraped(rn), LAMBDA e : Within(e.duration, rn.maxLength))
  ELSE Scraped(rn)

\* the run has published its plan
Published(rn) == rn.kind = "gen" /\ rn.pc = "g_end" /\ rn.last.state = "preview"

\* C5: the plan of the 'preview' status holds exactly the scraped videos whose
\* duration is <= maxLength (the bound included) when maxLength > 0, and every
\* scraped video when maxLength is 0 or no positive number; none is added,
\* duplicated or dropped.
C5_PlanIsFilteredScrape ==
  \A r \in RunIds :
     Published(runs[r]) =>
        /\ status = runs[r].last
        /\ SameEntries(runs[r].last.plan, Expected(runs[r]))
        /\ runs[r].last.total = Len(Expected(runs[r]))

\* with maxLength 30 the video of exactly 30 seconds is in the plan, a longer one is not
C5_Witness ==
  \E r \in RunIds :
     /\ Published(runs[r])
     /\ runs[r].maxLength = 30
     /\ \E i \in 1..Len(runs[r].last.plan) : runs[r].last.plan[i].duration = 30
     /\ Len(runs[r].last.plan) < Len(runs[r].seen)

\* the durations that are numbers follow each other in the order asked for
Ordered(plan, order) ==
  \A i, j \in 1..Len(plan) :
     (i < j /\ plan[i].duration # NaN /\ plan[j].duration # NaN) =>
        IF order = "asc" THEN plan[i].duration <= plan[j].duration
        ELSE plan[i].duration >= plan[j].duration

\* C6: the published plan is a permutation of the filtered list, in non-decreasing
\* order of duration for 'asc' and in non-increasing order for 'desc'.
C6_PlanSortedByDuration ==
  \A r \in RunIds :
     Published(runs[r]) =>
        /\ SameEntries(runs[r].last.plan, Expected(runs[r]))
        /\ Ordered(runs[r].last.plan, runs[r].order)

\* the filter leaves nothing of a page that has videos
AllTooLong(rn) ==
  /\ rn.seen # <<>>
  /\ Positive(rn.maxLength)
  /\ \A i \in 1..Len(rn.seen) : ~Within(durationSeconds(rn.seen[i]), rn.maxLength)

\* C7: a run that finds no video item ends with the last status 'error', 'No videos
\* found. Are you on a playlist page?'; a run whose filter removes every video ends
\* with 'error', 'No videos match the specified criteria.'; neither writes 'preview'.
C7_ErrorWhenNothingToPlan ==
  \A r \in RunIds :
     LET rn == runs[r] IN
     (rn.kind = "gen" /\ rn.pc = "g_end") =>
        /\ rn.seen = <<>> =>
              /\ rn.last = StatusRecord("error", 0, 0, NoVideosFound, <<>>)
              /\ status = rn.last
              /\ "preview" \notin rn.states
        /\ AllTooLong(rn) =>
              /\ rn.last = StatusRecord("error", 0, 0, NoVideosMatch, <<>>)
              /\ status = rn.last
              /\ "preview" \notin rn.states

\* three videos, all longer than the 29 seconds asked for: the run ended in 'error'
C7_Witness ==
  \E r \in RunIds :
     /\ runs[r].kind = "gen"
     /\ runs[r].pc = "g_end"
     /\ AllTooLong(runs[r])
     /\ Len(runs[r].seen) = 3
     /\ runs[r].maxLength = 29
     /\ status.state = "error"
     /\ status.message = NoVideosMatch
(***************************************************************************)
(* Property of the scroll before the scrape (SpecScroll).                  *)
(***************************************************************************)
\* C8: when generateReorderPlan reads the video items, a further scroll to the
\* bottom would load no additional item: the page has rendered the whole playlist.
C8_NothingLeftToLoad ==
  \A r \in RunIds :
     (runs[r].kind = "gen" /\ runs[r].pc = "g_end") => runs[r].unread = 0

(***************************************************************************)
(* Properties of cancelReorder during executeReorder (SpecRace, SpecExec). *)
(***************************************************************************)
\* C9: once a cancelReorder has been accepted while a run is in its move loop, that
\* run starts no 'Move to top' for a further plan item and does not go on to
\* verifyOrder, whatever requests arrive afterwards.
C9_NoMoveAfterCancel ==
  \A r \in RunIds : runs[r].kind = "exec" => ~runs[r].afterCancel

\* no call is active and no callback or timeout is pending
Quiescent ==
  /\ \A r \in RunIds : runs[r].kind = "none"
  /\ execGets = <<>>
  /\ timers = 0
  /\ timerGets = 0

\* C10: after a cancelReorder accepted during an executeReorder run and no request
\* after it, the status the script comes to rest with is 'idle', not 'reordering',
\* 'complete' or 'error'.
C10_IdleAfterCancel ==
  (history.cancelled /\ ~history.later /\ Quiescent) => status.state = "idle"
(***************************************************************************)
(* The isReordering flag of content.js:326 as a lock on operations.        *)
(***************************************************************************)
\* a generateReorderPlan or executeReorder call that has not returned yet
InProgress == {r \in RunIds : runs[r].kind \in {"gen", "exec"}}

\* C13: a generatePlan request received while isReordering is true is answered with
\* the error 'An operation is already in progress.' and changes nothing else: no flag,
\* no status, no run, no timer, nothing on the page.
C13_BusyGeneratePlanRefused ==
  [][\A order \in Orders, maxLength \in MaxLengths :
       (isReordering /\ RecvGeneratePlan(order, maxLength))
         => /\ response' = "An operation is already in progress."
            /\ UNCHANGED <<isReordering, isCancelled, status, runs, timers, pageVars,
                           execGets, timerGets, others>>]_vars

\* a request was refused while a generateReorderPlan call was on its way
C13_Witness ==
  /\ response = "An operation is already in progress."
  /\ isReordering
  /\ \E r \in RunIds : runs[r].kind = "gen"

\* C14: at no time are two calls of generateReorderPlan and/or executeReorder in
\* progress together.
C14_OneOperationAtATime == Cardinality(InProgress) <= 1

\* the step is the accepted cancelReorder of content.js:610-615
CancelAccepted ==
  /\ isReordering /\ ~isReordering' /\ isCancelled'
  /\ quota' = quota - 1
  /\ response' = "cancelling"
  /\ status' = StatusRecord("idle", 0, 0, NoMessage, <<>>)

\* the step is the return of an executeReorder call
ExecRunEnds == \E r \in RunIds : runs[r].kind = "exec" /\ runs'[r].kind = "none"

\* the step is the return of a generateReorderPlan call
GenRunEnds == \E r \in RunIds : runs[r].kind = "gen" /\ runs'[r].kind = "none"

\* C20: the return of generateReorderPlan, with a preview or with an error, leaves
\* isReordering as it is, and isReordering goes from true to false only when an
\* executeReorder call returns or a cancelReorder is accepted.
C20_ResetOnlyByExecuteOrCancel ==
  [][/\ GenRunEnds => isReordering' = isReordering
     /\ (isReordering /\ ~isReordering') => (ExecRunEnds \/ CancelAccepted)]_vars

\* generateReorderPlan has returned with an error and the flag is still up
C20_Witness ==
  /\ isReordering
  /\ status.state = "error"
  /\ InProgress = {}

(***************************************************************************)
(* SpecReload: the page is loaded again while the script is at work.  The  *)
(* old script is gone with its calls, timeouts and callbacks; the new one  *)
(* starts at content.js:326-331.  The page shows its ReloadVideos videos   *)
(* in the order of their ids.                                              *)
(***************************************************************************)
MaxLoads == 1
ReloadVideos == 3
ReloadMsgs == 3

\* ScriptLoad that leaves the stored status alone
ScriptLoadKeepStatus ==
  /\ loaded.count < MaxLoads
  /\ loaded' = [count |-> loaded.count + 1, before |-> status.state]
  /\ isReordering' = FALSE
  /\ isCancelled' = FALSE
  /\ status' = status
  /\ runs' = [r \in RunIds |-> IdleRun]
  /\ execGets' = <<>>
  /\ timers' = 0
  /\ timerGets' = 0
  /\ pageMoves' = {}
  /\ history' = [cancelled |-> FALSE, later |-> FALSE]
  /\ reorderPlan' = <<>>
  /\ UNCHANGED <<dom, unloaded, loading, container, quota, response, popup, relay>>

\* content.js:326-331 (and 1-7): the script of a page loaded again
ScriptLoad ==
  /\ loaded.count < MaxLoads
  /\ loaded' = [count |-> loaded.count + 1, before |-> status.state]
  /\ isReordering' = FALSE
  /\ isCancelled' = FALSE
  /\ status' = BareIdle
  /\ runs' = [r \in RunIds |-> IdleRun]
  /\ execGets' = <<>>
  /\ timers' = 0
  /\ timerGets' = 0
  /\ pageMoves' = {}
  /\ history' = [cancelled |-> FALSE, later |-> FALSE]
  /\ reorderPlan' = <<>>
  /\ UNCHANGED <<dom, unloaded, loading, container, quota, response, popup, relay>>

InitReload ==
  /\ InitScript
  /\ runs = [r \in 1..ReloadMsgs |-> IdleRun]
  /\ quota = ReloadMsgs
  /\ dom = [v \in 1..ReloadVideos |-> v]
  /\ unloaded = <<>>
  /\ loading = FALSE
  /\ container = TRUE
  /\ pageMoves = {}

NextReload ==
  \/ Next
  \/ ScriptLoad

SpecReload == InitReload /\ [][NextReload]_vars

\* C12: every load of the page script overwrites the stored status with
\* { state: 'idle' }, whatever the status was before.
C12_LoadWritesIdle == [][loaded' # loaded => status' = BareIdle]_vars

\* the page was loaded again in the middle of a reordering
C12_Witness ==
  /\ loaded.count > 0
  /\ loaded.before = "reordering"
  /\ status = BareIdle

(***************************************************************************)
(* The status 'complete' (content.js:236-240 and 540-545).                 *)
(***************************************************************************)
\* the step in which run r writes 'complete'
WritesComplete(r) ==
  /\ runs[r].kind \in {"exec", "exec1"}
  /\ runs[r].last.state # "complete"
  /\ runs'[r].last.state = "complete"

\* the first |plan| rendered titles are the plan's titles, in the plan's order
OrderIs(d, plan) ==
  /\ Len(d) >= Len(plan)
  /\ Titles(SubSeq(d, 1, Len(plan))) = PlanTitles(plan)

\* C11: 'complete' is written only by an executeReorder call, and only when the first
\* |plan| titles of the live list are, in order, the titles of the plan this call
\* was started with; whatever cancelReorder does meanwhile.
C11_CompleteOnlyWhenVerified ==
  [][((status'.state = "complete" /\ status' # status) \/ \E r \in RunIds : WritesComplete(r))
       => \E r \in RunIds : /\ WritesComplete(r)
                             /\ status' = runs'[r].last
                             /\ OrderIs(dom', runs'[r].plan)]_vars

(***************************************************************************)
(* The relay (unnamed/part_000:1-18): the background listener that passes  *)
(* the popup's messages to the page script of the active tab.  relay is    *)
(* the sequence of the listener's calls: the request, where the call is,   *)
(* what chrome.tabs.query and chrome.tabs.sendMessage gave it, and what it *)
(* has done so far (queries, forwarded, answers).                          *)
(***************************************************************************)
MaxRelayed == 2

Senders == {"popup", "content"}

Actions == {"generatePlan", "cancelReorder"}

Requests == [from : Senders, action : Actions]

\* chrome.tabs.query results: no tab, the active tab, the active tab and another
TabLists == {<<>>, <<123>>, <<7, 123>>}

NoResponse == [status |-> "none", message |-> ""]

\* what the page script answers
TabResponses ==
  {[status |-> "started", message |-> ""],
   [status |-> "error", message |-> "An operation is already in progress."]}

CouldNotConnect == [status |-> "error", message |-> "Could not connect to page."]

RelayCall(request) ==
  [request |-> request, pc |-> "ignored", tabs |-> <<>>, lastError |-> FALSE,
   response |-> NoResponse, queries |-> 0, forwarded |-> <<>>, answers |-> <<>>]

\* RelayReceive without the test of request.from
RelayReceiveAll(request) ==
  /\ Len(relay) < MaxRelayed
  /\ relay' = Append(relay, [RelayCall(request) EXCEPT !.pc = "query", !.queries = 1])
  /\ UNCHANGED <<isReordering, isCancelled, status, pageVars, runs, execGets, timers,
                 timerGets, quota, response, history, reorderPlan, loaded, popup>>

\* part_000:2-3, 16: the listener; a message of the popup starts the tab query
RelayReceive(request) ==
  /\ Len(relay) < MaxRelayed
  /\ relay' = Append(relay,
                IF request.from = "popup"
                THEN [RelayCall(request) EXCEPT !.pc = "query", !.queries = 1]
                ELSE RelayCall(request))
  /\ UNCHANGED <<isReordering, isCancelled, status, pageVars, runs, execGets, timers,
                 timerGets, quota, response, history, reorderPlan, loaded, popup>>

\* part_000:4-6: the callback of chrome.tabs.query
RelayTabs(k, tabs) ==
  /\ relay[k].pc = "query"
  /\ relay' = [relay EXCEPT ![k] =
                IF Len(tabs) > 0
                THEN [@ EXCEPT !.pc = "send", !.tabs = tabs,
                               !.forwarded = Append(@, [tab |-> tabs[1], msg |-> relay[k].request])]
                ELSE [@ EXCEPT !.pc = "notab", !.tabs = tabs]]
  /\ UNCHANGED <<isReordering, isCancelled, status, pageVars, runs, execGets, timers,
                 timerGets, quota, response, history, reorderPlan, loaded, popup>>

\* RelaySent that passes on whatever the tab's callback got
RelaySentUnchecked(k, lastError, answer) ==
  /\ relay[k].pc = "send"
  /\ lastError => answer = NoResponse
  /\ relay' = [relay EXCEPT ![k] =
                [@ EXCEPT !.pc = "done", !.lastError = lastError, !.response = answer,
                          !.answers = Append(@, answer)]]
  /\ UNCHANGED <<isReordering, isCancelled, status, pageVars, runs, execGets, timers,
                 timerGets, quota, response, history, reorderPlan, loaded, popup>>

\* part_000:6-13: the callback of chrome.tabs.sendMessage
RelaySent(k, lastError, answer) ==
  /\ relay[k].pc = "send"
  /\ lastError => answer = NoResponse
  /\ relay' = [relay EXCEPT ![k] =
                [@ EXCEPT !.pc = "done", !.lastError = lastError, !.response = answer,
                          !.answers = Append(@, IF lastError THEN CouldNotConnect
                                                ELSE answer)]]
  /\ UNCHANGED <<isReordering, isCancelled, status, pageVars, runs, execGets, timers,
                 timerGets, quota, response, history, reorderPlan, loaded, popup>>

InitRelay ==
  /\ InitScript
  /\ runs = [r \in {1} |-> IdleRun]
  /\ quota = 0
  /\ dom = <<>>
  /\ unloaded = <<>>
  /\ loading = FALSE
  /\ container = TRUE
  /\ pageMoves = {}

NextRelay ==
  \/ \E request \in Requests : RelayReceive(request)
  \/ \E k \in DOMAIN relay, tabs \in TabLists : RelayTabs(k, tabs)
  \/ \E k \in DOMAIN relay, lastError \in BOOLEAN, tabResponse \in TabResponses \cup {NoResponse} :
        RelaySent(k, lastError, tabResponse)

SpecRelay == InitRelay /\ [][NextRelay]_vars

\* C15: for a message of the popup, once chrome.tabs.query has given a tab, the relay
\* has sent exactly this message, unchanged, to the first tab of the result, and once
\* that tab's callback has run it has called sendResponse exactly once: with the tab's
\* response, or with the error 'Could not connect to page.' if lastError was set.
C15_ForwardsAndAnswersOnce ==
  \A k \in DOMAIN relay :
     LET c == relay[k] IN
     (c.request.from = "popup" /\ Len(c.tabs) > 0)
       => /\ c.forwarded = <<[tab |-> c.tabs[1], msg |-> c.request]>>
          /\ c.pc = "send" => c.answers = <<>>
          /\ c.pc = "done" =>
                c.answers = <<IF c.lastError THEN CouldNotConnect ELSE c.response>>
          /\ c.pc \in {"send", "done"}

\* one message was forwarded and answered by the tab, another could not be delivered
C15_Witness ==
  /\ \E k \in DOMAIN relay : relay[k].pc = "done" /\ relay[k].lastError
  /\ \E k \in DOMAIN relay :
        relay[k].pc = "done" /\ ~relay[k].lastError /\ relay[k].response \in TabResponses

\* C16: a message that does not come from the popup starts no tab query, and neither
\* it nor a popup message for which the query gives no tab is forwarded or answered.
C16_NothingWithoutPopupOrTab ==
  \A k \in DOMAIN relay :
     LET c == relay[k] IN
     /\ c.request.from # "popup" => (c.queries = 0 /\ c.forwarded = <<>> /\ c.answers = <<>>)
     /\ (c.request.from = "popup" /\ c.pc # "query" /\ Len(c.tabs) = 0)
          => (c.forwarded = <<>> /\ c.answers = <<>>)

\* a message from elsewhere was dropped, and a popup message found no active tab
C16_Witness ==
  /\ \E k \in DOMAIN relay : relay[k].request.from # "popup" /\ relay[k].pc = "ignored"
  /\ \E k \in DOMAIN relay : relay[k].request.from = "popup" /\ relay[k].pc = "notab"

(***************************************************************************)
(* The popup (popup.js:33-123): updateUI, the status check when the popup  *)
(* opens, and the storage.onChanged listener.                              *)
(***************************************************************************)
\* popup.js:62-64: `(${minutes}:${seconds padded}) ${video.title}`
PreviewItem(video) ==
  IF video.duration = NaN
  THEN [minutes |-> NaN, seconds |-> NaN, title |-> video.title]
  ELSE [minutes |-> video.duration \div 60, seconds |-> video.duration % 60,
        title |-> video.title]

RECURSIVE PreviewItems(_)
PreviewItems(plan) ==
  IF plan = <<>> THEN <<>> ELSE <<PreviewItem(Head(plan))>> \o PreviewItems(Tail(plan))

(***************************************************************************)
(* The arithmetic of popup.js:72.  A JavaScript number is a binary64: 53    *)
(* significant bits, every operation rounded to the nearest such number,   *)
(* a tie to the one with an even last bit.  A positive number is held here  *)
(* as [bits, exp]: its significant bits, most significant first, the first *)
(* of them 1 and of weight 2^exp.                                           *)
(***************************************************************************)
Significand == 53

\* the binary digits of a natural number, none for 0
RECURSIVE Binary(_)
Binary(n) == IF n = 0 THEN <<>> ELSE Binary(n \div 2) \o <<n % 2>>

\* the natural number of binary digits
RECURSIVE BinaryValue(_)
BinaryValue(bits) ==
  IF bits = <<>> THEN 0 ELSE 2 * BinaryValue(SubSeq(bits, 1, Len(bits) - 1)) + bits[Len(bits)]

\* the first n binary digits of r / d, for r < 2 * d; the first has weight 1
RECURSIVE QuotientBits(_, _, _)
QuotientBits(r, d, n) ==
  IF n = 0 THEN <<>>
  ELSE LET b == IF r >= d THEN 1 ELSE 0
       IN <<b>> \o QuotientBits(2 * (r - b * d), d, n - 1)

\* what is left of r / d after these n digits is not zero
RECURSIVE QuotientInexact(_, _, _)
QuotientInexact(r, d, n) ==
  IF n = 0 THEN r # 0
  ELSE QuotientInexact(2 * (r - (IF r >= d THEN d ELSE 0)), d, n - 1)

\* the greatest e with d * 2^e <= n, for n >= d
RECURSIVE ExponentDown(_, _)
ExponentDown(n, d) == IF n >= 2 * d THEN 1 + ExponentDown(n, 2 * d) ELSE 0

\* the least s with n * 2^s >= d
RECURSIVE ExponentUp(_, _)
ExponentUp(n, d) == IF n >= d THEN 0 ELSE 1 + ExponentUp(2 * n, d)

Power2(e) == IF e = 0 THEN 1 ELSE BinaryValue(<<1>> \o [j \in 1..e |-> 0])

\* the digits plus one in the last place; one digit longer when all were 1
RECURSIVE Increment(_)
Increment(bits) ==
  IF bits = <<>> THEN <<1>>
  ELSE IF bits[Len(bits)] = 0 THEN SubSeq(bits, 1, Len(bits) - 1) \o <<1>>
  ELSE Increment(SubSeq(bits, 1, Len(bits) - 1)) \o <<0>>

\* the binary64 nearest to the number of the digits `bits` (at least 54 of them,
\* the first of weight 2^exp) followed by something not zero if `more`
RoundToDouble(bits, exp, more) ==
  LET kept == SubSeq(bits, 1, Significand)
      half == bits[Significand + 1] = 1
      rest == more \/ \E j \in (Significand + 2)..Len(bits) : bits[j] = 1
      up   == half /\ (rest \/ kept[Significand] = 1)
      next == Increment(kept)
  IN IF ~up THEN [bits |-> kept, exp |-> exp]
     ELSE IF Len(next) > Significand
     THEN [bits |-> SubSeq(next, 1, Significand), exp |-> exp + 1]
     ELSE [bits |-> next, exp |-> exp]

\* processed / total for processed, total > 0
DoubleQuotient(n, d) ==
  LET down == n >= d
      e == IF down THEN ExponentDown(n, d) ELSE 0 - ExponentUp(n, d)
      r == IF down THEN n ELSE n * Power2(0 - e)
      q == IF down THEN d * Power2(e) ELSE d
  IN RoundToDouble(QuotientBits(r, q, Significand + 1), e,
                   QuotientInexact(r, q, Significand + 1))

\* the n last binary digits of a natural number
Digits(n, width) ==
  LET short == Binary(n % Power2(width))
  IN [j \in 1..(width - Len(short)) |-> 0] \o short

\* the digits of k times the number of the digits, sixteen places at a time, carry
\* being what comes from the places to the right
RECURSIVE TimesDigits(_, _, _)
TimesDigits(bits, k, carry) ==
  IF bits = <<>> THEN Binary(carry)
  ELSE LET width == IF Len(bits) < 16 THEN Len(bits) ELSE 16
           acc == k * BinaryValue(SubSeq(bits, Len(bits) - width + 1, Len(bits))) + carry
       IN TimesDigits(SubSeq(bits, 1, Len(bits) - width), k, acc \div Power2(width))
          \o Digits(acc, width)

\* x * k for a small natural k >= 2
DoubleTimes(x, k) ==
  LET product == TimesDigits(x.bits, k, 0)
  IN RoundToDouble(product, x.exp + (Len(product) - Len(x.bits)), FALSE)

\* the digits of x left of the binary point, the first digit right of it, and whether
\* a later digit is 1
WholePart(x) ==
  IF x.exp < 0 THEN 0 ELSE BinaryValue(SubSeq(x.bits, 1, x.exp + 1))

HalfDigit(x) ==
  IF x.exp < -1 \/ x.exp + 2 > Significand THEN 0 ELSE x.bits[x.exp + 2]

BelowHalfDigit(x) ==
  \/ x.exp < -1
  \/ \E j \in 1..Significand : j > x.exp + 2 /\ x.bits[j] = 1

\* Math.round: the nearest integer, a tie to the greater one
MathRound(x, negative) ==
  IF negative
  THEN 0 - (WholePart(x) + (IF HalfDigit(x) = 1 /\ BelowHalfDigit(x) THEN 1 ELSE 0))
  ELSE WholePart(x) + HalfDigit(x)

\* popup.js:72: Math.round((processed / total) * 100), 0 without a total
Percentage(st) ==
  IF st.total > 0 /\ st.processed # 0
  THEN MathRound(DoubleTimes(DoubleQuotient(IF st.processed < 0 THEN 0 - st.processed
                                            ELSE st.processed,
                                            st.total), 100),
                 st.processed < 0)
  ELSE 0

\* showView that knows the settings view only
showViewSettings(ui, viewName) ==
  [ui EXCEPT !.settingsShown = TRUE, !.previewShown = FALSE]

\* popup.js:33-36
showView(ui, viewName) ==
  [ui EXCEPT !.settingsShown = (viewName = "settings"),
             !.previewShown = (viewName = "preview")]

\* popup.js:38-103; a missing status and { state: 'idle' } have the state "none"/"idle"
updateUI(ui, st) ==
  IF st.state \in {"none", "idle"}
  THEN showView([ui EXCEPT !.statusText = UiText("Ready to sort.", 0, 0, NoMessage),
                           !.startDisabled = FALSE,
                           !.cancelShown = FALSE, !.cancelDisabled = FALSE,
                           !.orderDisabled = FALSE, !.maxLengthDisabled = FALSE,
                           !.progressShown = FALSE, !.progressWidth = 0], "settings")
  ELSE IF st.state = "gathering"
  THEN showView([ui EXCEPT !.statusText = IF st.message = NoMessage
                                          THEN UiText("Gathering videos...", 0, 0, NoMessage)
                                          ELSE UiText("", 0, 0, st.message),
                           !.startDisabled = TRUE,
                           !.cancelShown = TRUE,
                           !.orderDisabled = TRUE, !.maxLengthDisabled = TRUE,
                           !.progressShown = FALSE], "settings")
  ELSE IF st.state = "preview"
  THEN showView([ui EXCEPT !.statusText = UiText("Found videos. Confirm new order.",
                                                 st.total, 0, NoMessage),
                           !.previewList = PreviewItems(st.plan)], "preview")
  ELSE IF st.state = "reordering"
  THEN showView([ui EXCEPT !.statusText = UiText("Reordering...", st.processed, st.total,
                                                 NoMessage),
                           !.startDisabled = TRUE,
                           !.cancelShown = TRUE, !.cancelDisabled = FALSE,
                           !.orderDisabled = TRUE, !.maxLengthDisabled = TRUE,
                           !.progressShown = TRUE, !.progressWidth = Percentage(st)],
                "settings")
  ELSE IF st.state = "complete"
  THEN showView([ui EXCEPT !.statusText = UiText("Reordering complete!", 0, 0, NoMessage),
                           !.startDisabled = FALSE,
                           !.cancelShown = FALSE, !.cancelDisabled = FALSE,
                           !.orderDisabled = FALSE, !.maxLengthDisabled = FALSE,
                           !.progressShown = TRUE, !.progressWidth = 100], "settings")
  ELSE IF st.state = "error"
  THEN showView([ui EXCEPT !.statusText = UiText("Error:", 0, 0, st.message),
                           !.startDisabled = FALSE,
                           !.cancelShown = FALSE, !.cancelDisabled = FALSE,
                           !.orderDisabled = FALSE, !.maxLengthDisabled = FALSE,
                           !.progressShown = FALSE, !.progressWidth = 0], "settings")
  ELSE ui

\* a call of updateUI in the popup p
Draw(p, st) == [p EXCEPT !.ui = updateUI(p.ui, st), !.shown = st, !.drawn = TRUE]

\* the popup's script does not touch the page
PopupOnly ==
  UNCHANGED <<isReordering, isCancelled, pageVars, runs, execGets, timers, timerGets,
              quota, response, history, reorderPlan, loaded, relay>>

MaxOpens == 2
PopupVideos == 2
PopupWrites == 2

\* popup.js:105, 119, 125-175: the popup is opened and its script evaluated; the
\* DOMContentLoaded handler, the storage listener and the click handlers are
\* registered
PopupOpen ==
  /\ popup.pc = "closed"
  /\ popup.opens < MaxOpens
  /\ popup' = [popup EXCEPT !.pc = "loaded", !.opens = @ + 1]
  /\ status' = status
  /\ PopupOnly

\* popup.js:105-108: the DOMContentLoaded handler issues the storage.get
DOMContentLoaded ==
  /\ popup.pc = "loaded"
  /\ popup' = [popup EXCEPT !.pc = "get", !.got = status]
  /\ status' = status
  /\ PopupOnly

\* PopupGot without the reset of 'complete'
PopupGotAsStored ==
  /\ popup.pc = "get"
  /\ status' = status
  /\ popup' = [Draw(popup, popup.got) EXCEPT !.pc = "open"]
  /\ PopupOnly

\* popup.js:108-115: the callback of that storage.get
PopupGot ==
  /\ popup.pc = "get"
  /\ IF popup.got.state = "complete"
     THEN /\ status' = BareIdle
          /\ popup' = [popup EXCEPT !.pc = "set", !.sets = @ + 1,
                                    !.events = Append(@, BareIdle)]
     ELSE /\ status' = status
          /\ popup' = [Draw(popup, popup.got) EXCEPT !.pc = "open"]
  /\ PopupOnly

\* popup.js:111: the callback of the storage.set
PopupSetDone ==
  /\ popup.pc = "set"
  /\ popup' = [Draw(popup, BareIdle) EXCEPT !.pc = "open"]
  /\ status' = status
  /\ PopupOnly

\* popup.js:119-123: one storage.onChanged event
PopupChanged ==
  /\ popup.pc # "closed"
  /\ popup.events # <<>>
  /\ popup' = [Draw(popup, Head(popup.events)) EXCEPT !.events = Tail(@)]
  /\ status' = status
  /\ PopupOnly

\* the request of the call has not been passed on
Pending(call) == call.answer = "pending"

\* the popup is closed; its document and its callbacks are gone, the requests it has
\* sent are not
PopupClose ==
  /\ popup.pc # "closed"
  /\ popup' = [ClosedPopup EXCEPT !.opens = popup.opens, !.clicks = popup.clicks,
                                  !.confirms = popup.confirms,
                                  !.calls = SelectSeq(popup.calls, Pending)]
  /\ status' = status
  /\ PopupOnly

\* the statuses the page script stores (content.js:329-333 and every updateStatus)
Written ==
  {BareIdle, StatusRecord("idle", 0, 0, NoMessage, <<>>)}
  \cup {StatusRecord("gathering", 0, 0, Message(t, 0, <<>>, <<>>), <<>>) :
          t \in {"Scrolling to load all videos...", "Gathering video data..."}}
  \cup {PlanStatus(d, order, maxLength) :
          d \in Arrangements(1..PopupVideos), order \in Orders, maxLength \in MaxLengths}
  \cup {StatusRecord("reordering", processed, total, NoMessage, <<>>) :
          processed \in 0..PopupVideos, total \in 1..PopupVideos}
  \cup {StatusRecord("complete", total, total, NoMessage, <<>>) : total \in 1..PopupVideos}
  \cup {StatusRecord("error", 0, 0, ExecutionFailed(NotAllFound), <<>>)}

\* the page script stores a status; an open popup gets the storage.onChanged event
StorageWrite(st) ==
  /\ quota > 0
  /\ quota' = quota - 1
  /\ status' = st
  /\ popup' = IF popup.pc = "closed" THEN popup
              ELSE [popup EXCEPT !.events = Append(@, st)]
  /\ UNCHANGED <<isReordering, isCancelled, pageVars, runs, execGets, timers, timerGets,
                 response, history, reorderPlan, loaded, relay>>

InitPopup ==
  /\ isReordering = FALSE
  /\ isCancelled = FALSE
  /\ status \in Written \cup {NoStatus}
  /\ execGets = <<>>
  /\ timers = 0
  /\ timerGets = 0
  /\ response = "none"
  /\ history = [cancelled |-> FALSE, later |-> FALSE]
  /\ OthersIdle
  /\ runs = [r \in {1} |-> IdleRun]
  /\ quota = PopupWrites
  /\ dom = <<>>
  /\ unloaded = <<>>
  /\ loading = FALSE
  /\ container = TRUE
  /\ pageMoves = {}

NextPopup ==
  \/ PopupOpen
  \/ DOMContentLoaded
  \/ PopupGot
  \/ PopupSetDone
  \/ PopupChanged
  \/ PopupClose
  \/ \E st \in Written : StorageWrite(st)

SpecPopup == InitPopup /\ [][NextPopup]_vars

(***************************************************************************)
(* SpecView: the popup and the page script together.  The requests of the  *)
(* page script are the clicks on the popup's buttons (popup.js:125-172),   *)
(* which the background script passes on (part_000) and whose callbacks    *)
(* come back to the popup; the statuses the page script stores reach the   *)
(* open popup as storage.onChanged events.  A button that is displayed and *)
(* enabled can be clicked at any time, and events and callbacks reach the  *)
(* popup in any order.                                                      *)
(***************************************************************************)
ViewVideos == 1
ViewMsgs == 3
\* the number of clicks on Confirm among them
ViewConfirms == 1
\* the number of times the popup is opened
ViewOpens == 1

\* popup.js:128-129: the order and the maxLength of the popup's form
ViewSettings == [order |-> "asc", maxLength |-> 0]

AlreadyInProgress == Message("An operation is already in progress.", 0, <<>>, <<>>)

\* the button can be clicked: it is displayed and enabled
Clickable(ui, button) ==
  IF button = "submit" THEN ui.settingsShown /\ ~ui.startDisabled
  ELSE IF button \in {"confirm", "edit"} THEN ui.previewShown
  ELSE ui.cancelShown /\ ~ui.cancelDisabled

\* the place in popup.calls of the oldest request not yet passed on, 0 if there is none
NextCall ==
  LET waiting == {j \in 1..Len(popup.calls) : Pending(popup.calls[j])}
  IN IF waiting = {} THEN 0 ELSE CHOOSE j \in waiting : \A k \in waiting : j <= k

\* that request is the sendMessage of one of these buttons
Sent(buttons) == NextCall # 0 /\ popup.calls[NextCall].button \in buttons

\* the last request has reached the page script and its answer is on the way back
AnswerDue ==
  ViewMsgs - quota
    > popup.clicks - Cardinality({j \in 1..Len(popup.calls) : Pending(popup.calls[j])})

\* the call has its answer; the callback of a popup that is gone is never called
Answer(answer) ==
  LET call == popup.calls[NextCall]
  IN IF popup.pc # "closed" /\ call.inst = popup.opens
     THEN [popup EXCEPT !.calls[NextCall].answer = answer]
     ELSE [popup EXCEPT !.calls = SubSeq(@, 1, NextCall - 1)
                                    \o SubSeq(@, NextCall + 1, Len(@))]

\* chrome.storage queues the onChanged event of a stored status to the open popup
StorageChanged ==
  /\ status.fresh
  /\ status' = [status EXCEPT !.fresh = FALSE]
  /\ popup' = IF popup.pc = "closed" THEN popup
              ELSE [popup EXCEPT !.events = Append(@, status')]
  /\ PopupOnly

\* part_000:6-12: the callback of the background script's tabs.sendMessage passes the
\* page script's answer on; when the listener of content.js:592-617 has ended without
\* one (a cancelReorder with nothing in progress) chrome.runtime.lastError is set and
\* the answer is the error of part_000:9.  The answer to executeReorder comes from a
\* later callback (content.js:602-607) or never, and popup.js:146-150 ignores it.
RelayAnswer ==
  /\ AnswerDue
  /\ LET button == popup.calls[NextCall].button
     IN popup' = Answer(IF button = "submit" THEN response
                        ELSE IF button = "confirm" THEN "none"
                        ELSE IF response = "cancelling" THEN "cancelling"
                        ELSE CouldNotConnect.message)
  /\ response' = "none"
  /\ UNCHANGED <<isReordering, isCancelled, status, pageVars, runs, execGets, timers,
                 timerGets, quota, history, reorderPlan, loaded, relay>>

\* the event of the last store is queued and the last answer is on its way
Settled == ~status.fresh /\ ~AnswerDue

\* popup.js:125-131, 145-146, 153-155, 161-162: a click, and the sendMessage it makes
PopupClick(button) ==
  /\ popup.pc # "closed"
  /\ popup.clicks < ViewMsgs
  /\ button = "confirm" => popup.confirms < ViewConfirms
  /\ Clickable(popup.ui, button)
  /\ popup' = [popup EXCEPT !.clicks = @ + 1,
                            !.confirms = IF button = "confirm" THEN @ + 1 ELSE @,
                            !.calls = Append(@, [button |-> button, inst |-> popup.opens,
                                                 answer |-> "pending"])]
  /\ status' = status
  /\ PopupOnly

\* the request reaches no page: no background script or, later, no tab answers, and
\* the popup's callback is called with chrome.runtime.lastError
SendFails ==
  /\ NextCall # 0
  /\ quota > 0
  /\ quota' = quota - 1
  /\ popup' = Answer("lastError")
  /\ UNCHANGED <<isReordering, isCancelled, status, pageVars, runs, execGets, timers,
                 timerGets, response, history, reorderPlan, loaded, relay>>

\* popup.js:132-142: the callback of the Start button's sendMessage
SubmitAnswered(p, answer) ==
  IF answer = "lastError"
  THEN [p EXCEPT !.ui.statusText =
                    UiText("Error: Could not connect to the YouTube page. Please refresh the page and try again.",
                           0, 0, NoMessage)]
  ELSE IF answer \in {"none", "started", "executing", "cancelling"}
  THEN p
  ELSE [p EXCEPT !.ui.statusText = UiText("Error:", 0, 0, Message(answer, 0, <<>>, <<>>))]

\* popup.js:155-157: the callback of the Edit button's sendMessage
EditAnswered(p) == Draw(p, BareIdle)

\* popup.js:162-171: the callback of the Cancel button's sendMessage
CancelAnswered(p, answer) ==
  IF answer = "lastError"
  THEN [p EXCEPT !.ui.statusText =
                    UiText("Error: Could not send cancel command.", 0, 0, NoMessage)]
  ELSE IF answer = "cancelling"
  THEN Draw([p EXCEPT !.ui = [@ EXCEPT !.statusText =
                                          UiText("Operation cancelled.", 0, 0, NoMessage),
                                        !.cancelDisabled = TRUE]],
            BareIdle)
  ELSE p

\* the callback of the oldest sendMessage; popup.js:146-150 (Confirm) does nothing
PopupAnswered ==
  /\ popup.pc # "closed"
  /\ popup.calls # <<>>
  /\ ~Pending(Head(popup.calls))
  /\ LET call == Head(popup.calls)
         p == [popup EXCEPT !.calls = Tail(@)]
     IN popup' = IF call.button = "submit" THEN SubmitAnswered(p, call.answer)
                 ELSE IF call.button = "edit" THEN EditAnswered(p)
                 ELSE IF call.button = "cancel" THEN CancelAnswered(p, call.answer)
                 ELSE p
  /\ status' = status
  /\ PopupOnly

InitView ==
  /\ InitScript
  /\ runs = [r \in 1..ViewMsgs |-> IdleRun]
  /\ quota = ViewMsgs
  /\ dom \in Arrangements(1..ViewVideos)
  /\ unloaded = <<>>
  /\ loading = FALSE
  /\ container = TRUE
  /\ pageMoves = {}

NextView ==
  \/ StorageChanged
  \/ RelayAnswer
  \/ Settled /\ popup.opens < ViewOpens /\ PopupOpen
  \/ Settled /\ DOMContentLoaded
  \/ Settled /\ PopupGot
  \/ Settled /\ PopupSetDone
  \/ Settled /\ PopupChanged
  \/ Settled /\ PopupClose
  \/ Settled /\ \E button \in {"submit", "confirm", "edit", "cancel"} : PopupClick(button)
  \/ Settled /\ PopupAnswered
  \/ Settled /\ SendFails
  \/ Settled /\ Sent({"submit"})
       /\ RecvGeneratePlan(ViewSettings.order, ViewSettings.maxLength)
  \/ Settled /\ Sent({"confirm"}) /\ RecvExecuteReorder
  \/ Settled /\ Sent({"edit", "cancel"}) /\ RecvCancelReorder
  \/ Settled /\ ExecGetCallback
  \/ Settled /\ \E r \in RunIds : GenScroll(r)
  \/ Settled /\ \E r \in RunIds : ScrollTick(r)
  \/ Settled /\ \E r \in RunIds : GenGathering(r)
  \/ Settled /\ \E r \in RunIds : GenScrape(r)
  \/ Settled /\ \E r \in RunIds : GenEnd(r)
  \/ Settled /\ \E r \in RunIds : ExecBegin(r)
  \/ Settled /\ \E r \in RunIds : ExecNext(r)
  \/ Settled /\ \E r \in RunIds : ExecCancelled(r)
  \/ Settled /\ \E r \in RunIds : ExecMenu(r)
  \/ Settled /\ \E r \in RunIds : ExecPoll(r)
  \/ Settled /\ \E r \in RunIds : ExecStable(r)
  \/ Settled /\ \E r \in RunIds : ExecFinally(r)
  \/ Settled /\ \E r \in RunIds : VerifyGot(r)
  \/ Settled /\ \E r \in RunIds : VerifyRead(r)
  \/ Settled /\ TimerFire
  \/ Settled /\ TimerIdle
  \/ Settled /\ \E v \in pageMoves : PageMove(v)

SpecView == InitView /\ [][NextView]_vars

\* C17: after updateUI the Start button and both inputs are enabled for a missing
\* status and for 'idle', 'complete' and 'error', and disabled for 'gathering' and
\* 'reordering'; the preview view is shown exactly for 'preview', the settings view
\* for every other state.
C17_ControlsFollowState ==
  popup.drawn =>
    LET st == popup.shown
        ui == popup.ui
    IN /\ st.state \in {"none", "idle", "complete", "error"}
            => (~ui.startDisabled /\ ~ui.orderDisabled /\ ~ui.maxLengthDisabled)
       /\ st.state \in {"gathering", "reordering"}
            => (ui.startDisabled /\ ui.orderDisabled /\ ui.maxLengthDisabled)
       /\ ui.previewShown <=> st.state = "preview"
       /\ ui.settingsShown <=> st.state # "preview"

\* the popup has followed the page from 'gathering' to the preview
C17_Witness ==
  /\ popup.drawn
  /\ popup.shown.state = "preview"
  /\ popup.ui.previewShown /\ ~popup.ui.settingsShown
  /\ popup.ui.startDisabled

\* the step is the callback of the storage.get issued when the popup opened
OpenCallback == popup.pc = "get" /\ popup'.pc \in {"set", "open"}

ReadyToSort == UiText("Ready to sort.", 0, 0, NoMessage)

\* C18: when the popup opens on a stored 'complete' it stores { state: 'idle' } and
\* shows the idle state; on any other stored status it shows that status and stores
\* nothing.
C18_OpenResetsCompleteOnly ==
  [][/\ OpenCallback =>
          IF popup.got.state = "complete"
          THEN status' = BareIdle /\ popup'.pc = "set" /\ popup'.sets = 1
          ELSE /\ status' = status /\ popup'.sets = 0
               /\ popup'.drawn /\ popup'.shown = popup.got /\ popup'.pc = "open"
     /\ (popup.pc = "set" /\ popup'.pc = "open")
          => /\ status' = status /\ popup'.sets = 1
             /\ popup'.shown = BareIdle
             /\ popup'.ui.statusText = ReadyToSort /\ popup'.ui.settingsShown]_vars

\* the popup was opened on 'complete' and now shows 'Ready to sort.'
C18_Witness ==
  /\ popup.pc = "open"
  /\ popup.got.state = "complete"
  /\ popup.sets = 1
  /\ status = BareIdle
  /\ popup.ui.statusText = ReadyToSort

\* C19: when the popup opens and the last known state is 'complete' or 'preview',
\* the stored status is reset to 'idle'.
C19_OpenResetsCompleteAndPreview ==
  [][(OpenCallback /\ popup.got.state \in {"complete", "preview"})
       => status'.state = "idle"]_vars

(***************************************************************************)
(* Requests after an operation has ended or was cancelled.                 *)
(***************************************************************************)
\* generateReorderPlan has returned after its catch block stored the error
GenFailed ==
  /\ InProgress = {}
  /\ status.state = "error"
  /\ status.message \in {NoVideosFound, NoVideosMatch}

\* C21: when plan generation has ended with the status 'error', the next generatePlan
\* request is accepted and answered 'started'.
C21_GeneratePlanAfterError ==
  [][\A order \in Orders, maxLength \in MaxLengths :
       (GenFailed /\ RecvGeneratePlan(order, maxLength)) => response' = "started"]_vars

\* the step in which the listener calls executeReorder and run r begins
ExecRunStarts(r) == runs[r].kind = "none" /\ runs'[r].kind = "exec"

\* C22: isCancelled is false when an executeReorder run starts, whatever was cancelled
\* before: a cancelReorder affects only the operation in progress when it is accepted.
C22_FreshRunNotCancelled ==
  [][\A r \in RunIds : ExecRunStarts(r) => ~isCancelled']_vars

\* C23: once a cancelReorder has been accepted while generateReorderPlan is scrolling
\* or scraping, that call writes no further status: no 'gathering', 'preview' or
\* 'error' follows the 'idle' of the cancel.
C23_CancelledPlanPublishesNothing ==
  [][\A r \in RunIds :
       (runs[r].kind = "gen" /\ runs[r].cancelled /\ runs'[r].kind = "gen")
         => runs'[r].last = runs[r].last]_vars

(***************************************************************************)
(* executeReorder requests and the plan they find (content.js:600-608).    *)
(***************************************************************************)
\* the step is an executeReorder request: its storage.get is issued
ExecRequested == Len(execGets') = Len(execGets) + 1

\* C24: an executeReorder request received while the stored status is in a state
\* other than 'preview' reads no plan item, the executeReorder call started for a
\* request gets exactly the plan that request read, and a call without plan items
\* clicks no 'Move to top': videos are moved only by a plan that was published.
C24_MovesOnlyFromPreview ==
  [][/\ (ExecRequested /\ status.state # "preview")
          => execGets'[Len(execGets')].plan = <<>>
     /\ \A r \in RunIds :
          ExecRunStarts(r) => (execGets # <<>> /\ runs'[r].plan = Head(execGets).plan)
     /\ \A r \in RunIds :
          (runs'[r].kind = "exec" /\ runs'[r].plan = <<>>)
            => (runs'[r].attempts = <<>> /\ runs'[r].target = 0 /\ runs'[r].pc = "x_fin")]_vars

\* an executeReorder request arrived outside the preview; its call failed at once
C24_Witness ==
  /\ \E r \in RunIds : runs[r].kind = "exec" /\ runs[r].plan = <<>> /\ runs[r].pc = "x_fin"
  /\ status.state = "error"
  /\ status.message =
       ExecutionFailed(Message("Reorder plan is missing or empty.", 0, <<>>, <<>>))
  /\ pageMoves = {}

\* the step begins or ends an executeReorder call r that was given no plan item
EmptyRunStep(r) ==
  \/ ExecRunStarts(r) /\ runs'[r].plan = <<>>
  \/ runs[r].kind = "exec" /\ runs[r].plan = <<>> /\ runs'[r].kind = "none"

\* C25: an executeReorder request that finds no usable plan leaves an operation in
\* progress alone: isReordering, isCancelled and the stored status stay as they are.
C25_EmptyRequestDisturbsNothing ==
  [][\A r \in RunIds :
       (EmptyRunStep(r) /\ InProgress \ {r} # {})
         => UNCHANGED <<isReordering, isCancelled, status>>]_vars

(***************************************************************************)
(* Failures inside executeReorder's loop (content.js:508-532).             *)
(***************************************************************************)
\* the step in which the click for the current item of run r fails: the menu button
\* is missing when the item is found, or the 'Move to top' option is
ClickFails(r) ==
  \/ /\ runs[r].pc \in {"x_begin", "x_next", "x_search", "x_scroll"}
     /\ Len(runs'[r].attempts) = Len(runs[r].attempts) + 1
     /\ runs'[r].pc # "x_menu"
  \/ /\ runs[r].pc = "x_menu"
     /\ runs'[r].pc \notin {"x_menu", "x_poll"}

\* the step in which verifyOrder returns to run r
VerifyReturns(r) == runs[r].pc = "v_wait" /\ runs'[r].pc # "v_wait"

\* C26: a failed click on 'Move to top' does not end executeReorder: the item is
\* counted as processed in a 'reordering' record and the loop goes on, so that a call
\* that was not cancelled reaches verifyOrder having tried every item; the failure
\* shows only there: the call ends in 'error' exactly when the order does not match.
C26_ClickFailureSkipsItem ==
  [][\A r \in RunIds :
       runs[r].kind = "exec" =>
         /\ ClickFails(r) =>
              /\ runs'[r].pc = "x_next"
              /\ status'.state = "reordering"
              /\ status'.processed = Len(runs[r].plan) - runs'[r].i + 1
              /\ status'.total = Len(runs[r].plan)
         /\ (runs'[r].pc = "v_get" /\ ~runs'[r].sawCancel) =>
              Len(runs'[r].attempts) = Len(runs[r].plan)
         /\ VerifyReturns(r) =>
              /\ runs'[r].pc = "x_fin"
              /\ status'.state = IF OrderIs(dom, runs[r].plan) THEN "complete" ELSE "error"]_vars

\* a click failed, every item was tried all the same, and verifyOrder found the
\* mismatch
C26_Witness ==
  \E r \in RunIds :
     /\ runs[r].kind = "exec" /\ runs[r].pc = "x_fin"
     /\ ~runs[r].effective /\ ~runs[r].disturbed /\ ~runs[r].sawCancel
     /\ pageMoves = {}
     /\ Len(runs[r].plan) >= 2
     /\ Len(runs[r].attempts) = Len(runs[r].plan)
     /\ runs[r].result.msg.text = "Mismatch at position"
     /\ status.state = "error"

\* the step in which the second search of run r, after scrollToBottom, is over
SearchedAgain(r) ==
  /\ runs[r].pc \in {"x_search", "x_scroll"}
  /\ runs'[r].pc \notin {"x_search", "x_scroll"}

\* `Execution failed: Could not find video "${title}" after scrolling to the bottom. ...`
CouldNotFind(title) ==
  ExecutionFailed(Message("Could not find video after scrolling to the bottom", 0,
                          title, <<>>))

\* C27: when the element of a plan item is not found even after scrollToBottom,
\* executeReorder gives up: the status becomes 'error' with the message 'Execution
\* failed: Could not find video ...', the call attempts no further move and goes to
\* its finally block, which resets isReordering; the list stays as the moves made so
\* far have left it.
C27_NotFoundAborts ==
  [][\A r \in RunIds :
       runs[r].kind = "exec" =>
         /\ (SearchedAgain(r)
               /\ findVideoElementByTitle(dom, runs[r].plan[runs[r].i].title) = 0)
              => /\ runs'[r].pc = "x_fin"
                 /\ status' = StatusRecord("error", 0, 0,
                                           CouldNotFind(runs[r].plan[runs[r].i].title), <<>>)
                 /\ runs'[r].attempts = runs[r].attempts
                 /\ dom' = dom /\ pageMoves' = pageMoves
         /\ (runs[r].pc = "x_fin" /\ runs'[r].pc # "x_fin")
              => /\ runs'[r].kind = "none"
                 /\ ~isReordering'
                 /\ dom' = dom /\ pageMoves' = pageMoves]_vars

\* the last item was moved to the top, the next one was not found after scrolling
C27_Witness ==
  \E r \in RunIds :
     /\ runs[r].kind = "exec" /\ runs[r].pc = "x_fin"
     /\ runs[r].attempts # <<>>
     /\ Len(runs[r].attempts) < Len(runs[r].plan)
     /\ runs[r].effective /\ pageMoves = {}
     /\ dom # <<>> /\ dom[1] = runs[r].target
     /\ status.state = "error"
     /\ status.message = CouldNotFind(runs[r].plan[runs[r].i].title)

(***************************************************************************)
(* The progress counters of the stored status.                             *)
(***************************************************************************)
\* C28: every status stored has 0 <= processed <= total, and the 'reordering'
\* records one executeReorder call writes never go back in processed; for both
\* definitions of executeReorder and whatever cancelReorder does meanwhile.
C28_ProgressWithinTotal ==
  [][/\ 0 <= status'.processed
     /\ status'.processed <= status'.total
     /\ \A r \in RunIds :
          (/\ runs[r].kind \in {"exec", "exec1"} /\ runs'[r].kind = runs[r].kind
           /\ runs[r].last.state = "reordering" /\ runs'[r].last.state = "reordering")
            => runs'[r].last.processed >= runs[r].last.processed]_vars

(***************************************************************************)
(* Termination of scrollToBottom (SpecScrollFair).                         *)
(***************************************************************************)
ScrollPcs == {"g_scroll", "x_scroll"}

\* a scrollToBottom promise is pending
Scrolling == \E r \in RunIds : runs[r].pc \in ScrollPcs

\* the step in which the scrollToBottom promise of run r resolves
ScrollResolves(r) == runs[r].pc \in ScrollPcs /\ runs'[r].pc \notin ScrollPcs

\* C29: scrollToBottom always resolves.  While it is pending fewer than 3 consecutive
\* checks have found the height unchanged and at most 30 checks were made; it resolves
\* at the third such check or, that not reached, with the failsafe at the 30th second;
\* without the playlist container it resolves in the call itself, with no scroll; and
\* no check runs once it has resolved.
C29_ScrollToBottomResolves ==
  /\ [](\A r \in RunIds :
          runs[r].pc \in ScrollPcs
            => /\ runs[r].consecutiveStops < maxConsecutiveStops
               /\ runs[r].ticks <= FailsafeTicks
               /\ container)
  /\ [][\A r \in RunIds :
          /\ ScrollResolves(r)
               => \/ runs'[r].consecutiveStops = maxConsecutiveStops
                  \/ /\ runs'[r].consecutiveStops < maxConsecutiveStops
                     /\ runs'[r].ticks \in {FailsafeTicks - 1, FailsafeTicks}
          /\ (runs[r].pc = "g_start" /\ runs'[r].pc # "g_start" /\ ~container)
               => (runs'[r].pc = "g_wait" /\ runs'[r].ticks = 0 /\ loading' = loading)
          /\ runs'[r].ticks > runs[r].ticks => runs[r].pc \in ScrollPcs]_vars
  /\ (Scrolling ~> ~Scrolling)

\* the failsafe has resolved the promise of a page that was still growing
C29_Witness ==
  \E r \in RunIds :
     /\ runs[r].kind = "gen" /\ runs[r].pc = "g_wait"
     /\ runs[r].ticks >= FailsafeTicks - 1
     /\ runs[r].consecutiveStops < maxConsecutiveStops
     /\ unloaded # <<>>

(***************************************************************************)
(* Termination of executeReorder (SpecExecFair).                           *)
(***************************************************************************)
\* a call of executeReorder has not returned
Executing == \E r \in RunIds : runs[r].kind = "exec"

\* C30: every call of executeReorder returns, whatever the page does meanwhile, and
\* the step in which it returns leaves isReordering and isCancelled both false.
C30_ExecuteReorderTerminates ==
  /\ [][ExecRunEnds => (~isReordering' /\ ~isCancelled')]_vars
  /\ (Executing ~> ~Executing)

(***************************************************************************)
(* The shape of the stored status (Spec).                                  *)
(***************************************************************************)
StatusStates == {"idle", "gathering", "preview", "reordering", "complete", "error"}

\* C31: the stored status is always in one of the states idle, gathering, preview,
\* reordering, complete, error; in 'preview' its plan is not empty, total is the
\* length of the plan and processed is 0; in every other state it has no plan or an
\* empty one.
C31_StatusShape ==
  /\ status.state \in StatusStates
  /\ status.state = "preview"
       => /\ status.plan # <<>>
          /\ status.total = Len(status.plan)
          /\ status.processed = 0
  /\ status.state # "preview" => status.plan = <<>>

\* generateReorderPlan has published a plan of several videos
C31_Witness ==
  /\ status.state = "preview"
  /\ status.full
  /\ Len(status.plan) >= 2
  /\ status.total = Len(status.plan)
  /\ isReordering

(***************************************************************************)
(* The popup's view and the stored status (SpecView).                      *)
(***************************************************************************)
\* the idle view: the settings with 'Ready to sort.'
\* the popup has handled every event and the callback of every click
ViewUpToDate ==
  /\ popup.pc = "open"
  /\ popup.events = <<>>
  /\ popup.calls = <<>>
  /\ Settled

IdleView == popup.ui.settingsShown /\ popup.ui.statusText = ReadyToSort

\* C32: once the popup has handled every storage.onChanged event and the callback of
\* every click, Edit and Cancel included, it does not show the idle 'Ready to sort.'
\* view while the stored status is 'preview', 'gathering' or 'reordering'.
C32_ViewFollowsStoredStatus ==
  (ViewUpToDate /\ popup.drawn)
     => ~(IdleView /\ status.state \in {"preview", "gathering", "reordering"})

====
